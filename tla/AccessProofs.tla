---------------------------- MODULE AccessProofs ----------------------------
(***************************************************************************)
(* Proofs about what decides who may call the server, how often and how    *)
(* many at once, for all constants: Sessions, HitCounter, LoginBackoff,    *)
(* SocketLimits and ClientSession, and of the composition of them.         *)
(***************************************************************************)
EXTENDS MCAccess, WorkGateProofs, RecursionLemmas, FiniteSetTheorems, SequenceTheorems, TLAPS

(***************************************************************************)
(* Sessions.                                                               *)
(***************************************************************************)
LEMMA SessionConstants ==
    /\ JwtLife \in Nat /\ MaxIdle \in Nat /\ TouchAfter \in Nat /\ MaxTimer \in Nat
    /\ MaxJwt \in Nat /\ MaxSocket \in Nat /\ LastDay \in Nat
    /\ MaxDevice \in Nat \ {0} /\ MaxEpoch \in Nat \ {0}
    /\ Unset \notin Login /\ Unset \notin SigningKey
  BY SessionAssumption

LEMMA SessionInitInv == SessionInit => SessionInv
<1> SUFFICES ASSUME SessionInit PROVE SessionInv
  OBVIOUS
<1> USE SessionConstants DEF SessionInit
<1>1. /\ devices \in Seq(DeviceRow) /\ Len(devices) <= MaxDevice
      /\ \A d \in DOMAIN devices : devices[d].at = 1
  <2>1. [revoked |-> FALSE, used |-> 0, at |-> 1] \in DeviceRow
    BY DEF DeviceRow
  <2>2. CASE devices = <<>>
    BY <2>2
  <2>3. CASE devices = <<[revoked |-> FALSE, used |-> 0, at |-> 1]>>
    BY <2>1, <2>3
  <2>4. QED
    BY <2>2, <2>3
<1>2. jwts \subseteq Jwt
  BY DEF Jwt, Config
<1>3. calls \in [Call -> [kind : {"idle", "login", "mint", "revoke", "revokeAll"}, device : 0..MaxDevice]]
  BY DEF Idle
<1>4. stored \in [login : Login \cup {Unset}, key : SigningKey \cup {Unset}] /\ stored.key = Unset
  BY DEF credentialDigest, Config
<1>5. SessionTypeOK
  <2>1. config \in Config /\ epoch = 1 /\ serving = FALSE /\ day = 0
    OBVIOUS
  <2>2. sockets \subseteq [token : Jwt \cup DeviceToken, timer : Nat]
    OBVIOUS
  <2> HIDE DEF SessionInit
  <2>3. epoch \in 1..MaxEpoch /\ day \in 0..LastDay
    BY <2>1
  <2>4. QED
    BY <1>1, <1>2, <1>3, <1>4, <2>1, <2>2, <2>3 DEF SessionTypeOK
<1>6. FingerprintCurrent
  BY <1>4 DEF FingerprintCurrent
<1>7. SessionsKnown
  <2>1. \A c \in Call : calls[c].kind # "revoke"
    BY DEF Idle
  <2>2. \A j \in jwts : j.ver <= epoch
    OBVIOUS
  <2>3. sockets = {}
    OBVIOUS
  <2>4. QED
    BY <2>1, <2>2, <2>3, Zenon DEF SessionsKnown
<1>8. NothingOutlivesSignOut
  BY <1>1 DEF NothingOutlivesSignOut
<1>9. QED
  BY <1>5, <1>6, <1>7, <1>8 DEF SessionInv

\* Rows after a use: the same rows, as revoked and as old as they were.
LEMMA TouchedRows ==
    ASSUME SessionTypeOK, NEW t \in Issued
    PROVE  /\ Touched(t) \in Seq(DeviceRow) /\ Len(Touched(t)) = Len(devices)
           /\ DOMAIN Touched(t) = DOMAIN devices
           /\ \A d \in DOMAIN devices :
                /\ Touched(t)[d].revoked = devices[d].revoked
                /\ Touched(t)[d].at = devices[d].at
                /\ Touched(t)[d].used \in {devices[d].used, day}
                /\ t # Row(d) => Touched(t)[d] = devices[d]
<1> USE DEF SessionTypeOK
<1>1. CASE Touched(t) = devices
  BY <1>1 DEF DeviceRow
<1>2. CASE t.type = "device" /\ Touched(t) = [devices EXCEPT ![t.id].used = day]
  <2>1. t.id \in DOMAIN devices /\ t = Row(t.id)
    BY <1>2 DEF Issued, Row, Jwt
  <2>2. DOMAIN devices = 1..Len(devices) /\ \A d \in DOMAIN devices : devices[d] \in DeviceRow
    OBVIOUS
  <2> DEFINE row == [devices[t.id] EXCEPT !.used = day]
  <2>3. /\ row \in DeviceRow /\ row.used = day
        /\ row.revoked = devices[t.id].revoked /\ row.at = devices[t.id].at
    BY <2>1, <2>2 DEF DeviceRow
  <2>4. Touched(t) = [devices EXCEPT ![t.id] = row]
    BY <1>2
  <2> HIDE DEF row
  <2>5. /\ Touched(t) \in Seq(DeviceRow) /\ Len(Touched(t)) = Len(devices)
        /\ DOMAIN Touched(t) = DOMAIN devices
        /\ Touched(t)[t.id] = row
        /\ \A d \in DOMAIN devices : d # t.id => Touched(t)[d] = devices[d]
    BY <2>1, <2>2, <2>3, <2>4
  <2>6. QED
    BY <2>1, <2>3, <2>5 DEF Row
<1>3. QED
  BY <1>1, <1>2 DEF Touched

LEMMA RevokedRows ==
    ASSUME SessionTypeOK, revokeAllSessions
    PROVE  /\ epoch' = epoch + 1 /\ epoch' \in 1..MaxEpoch
           /\ devices' \in Seq(DeviceRow) /\ Len(devices') = Len(devices)
           /\ DOMAIN devices' = DOMAIN devices
           /\ \A d \in DOMAIN devices : devices'[d].revoked
<1> USE DEF SessionTypeOK, revokeAllSessions
<1>1. DOMAIN devices = 1..Len(devices) /\ Len(devices) \in Nat
      /\ \A d \in DOMAIN devices : devices[d] \in DeviceRow
  OBVIOUS
<1>2. \A d \in DOMAIN devices : /\ [devices[d] EXCEPT !.revoked = TRUE] \in DeviceRow
                                /\ [devices[d] EXCEPT !.revoked = TRUE].revoked
  BY <1>1 DEF DeviceRow
<1>3. /\ DOMAIN devices' = DOMAIN devices
      /\ \A d \in DOMAIN devices : devices'[d] \in DeviceRow /\ devices'[d].revoked
  BY <1>2
<1>4. devices' \in Seq(DeviceRow) /\ Len(devices') = Len(devices)
  <2>1. devices' \in [1..Len(devices) -> DeviceRow]
    BY <1>1, <1>3
  <2>2. QED
    BY <1>1, <2>1
<1>5. QED
  BY <1>1, <1>3, <1>4, SessionConstants

------------------------------------------------------------------------------
\* One lemma per kind of step. An action that leaves the rows' revocation, the
\* fingerprint and the epoch alone can only disturb the sockets and the calls.
LEMMA StartInv ==
    ASSUME SessionInv, NEW c \in Config, Start(c)
    PROVE  SessionInv'
<1> USE SessionConstants DEF SessionInv, SessionTypeOK, Start
<1>1. /\ fingerprint(c) \in [login : Login \cup {Unset}, key : SigningKey \cup {Unset}]
      /\ fingerprint(c).key # Unset /\ stored' = fingerprint(c)
  BY DEF fingerprint, Config, syncCredentialFingerprint
<1>2. sockets = {} /\ sockets' = {}
  BY DEF SessionsKnown
<1>3. /\ epoch' \in 1..MaxEpoch /\ epoch' >= epoch
      /\ devices' \in Seq(DeviceRow) /\ Len(devices') = Len(devices)
      /\ DOMAIN devices' = DOMAIN devices
      /\ \A d \in DOMAIN devices : ~devices'[d].revoked => devices'[d].at = epoch'
  <2>1. CASE UNCHANGED <<epoch, devices>>
    BY <2>1 DEF NothingOutlivesSignOut
  <2>2. CASE revokeAllSessions
    BY <2>2, RevokedRows
  <2>3. QED
    BY <2>1, <2>2 DEF syncCredentialFingerprint
<1>4. SessionTypeOK'
  BY <1>1, <1>3
<1>5. FingerprintCurrent'
  BY <1>1 DEF FingerprintCurrent, fingerprint
<1>6. SessionsKnown'
  BY <1>2, <1>3 DEF SessionsKnown, Jwt
<1>7. NothingOutlivesSignOut'
  BY <1>2, <1>3 DEF NothingOutlivesSignOut
<1>8. QED
  BY <1>4, <1>5, <1>6, <1>7

LEMMA StopInv ==
    ASSUME SessionInv, Stop
    PROVE  SessionInv'
<1> USE SessionConstants DEF SessionInv, SessionTypeOK, Stop
<1>1. SessionTypeOK'
  <2>1. calls' \in [Call -> [kind : {"idle", "login", "mint", "revoke", "revokeAll"}, device : 0..MaxDevice]]
    BY DEF Idle
  <2>2. QED
    BY <2>1
<1>2. SessionsKnown'
  <2>1. \A c \in Call : calls'[c].kind # "revoke"
    BY DEF Idle
  <2>2. QED
    BY <2>1 DEF SessionsKnown
<1>3. QED
  BY <1>1, <1>2 DEF FingerprintCurrent, NothingOutlivesSignOut

LEMMA DayPassesInv ==
    ASSUME SessionInv, DayPasses
    PROVE  SessionInv'
<1> USE SessionConstants DEF SessionInv, DayPasses
<1>1. SessionTypeOK'
  BY DEF SessionTypeOK
<1>2. QED
  BY <1>1 DEF FingerprintCurrent, NothingOutlivesSignOut, SessionsKnown, Issued

\* What a step that only touches rows, and changes calls, keeps.
LEMMA TouchInv ==
    ASSUME SessionInv, NEW t \in Issued, devices' = Touched(t),
           UNCHANGED <<config, stored, epoch, jwts, sockets, day>>, serving, serving'
    PROVE  /\ FingerprintCurrent' /\ NothingOutlivesSignOut'
           /\ devices' \in Seq(DeviceRow) /\ Len(devices') = Len(devices)
           /\ DOMAIN devices' = DOMAIN devices
           /\ Issued' = Issued
<1> USE DEF SessionInv
<1>1. /\ devices' \in Seq(DeviceRow) /\ Len(devices') = Len(devices)
      /\ DOMAIN devices' = DOMAIN devices
      /\ \A d \in DOMAIN devices : /\ devices'[d].revoked = devices[d].revoked
                                   /\ devices'[d].at = devices[d].at
  BY TouchedRows
<1>2. FingerprintCurrent'
  BY DEF FingerprintCurrent
<1>3. Issued' = Issued
  BY <1>1 DEF Issued
<1>4. NothingOutlivesSignOut'
  <2>1. ASSUME NEW s \in sockets, s.token.type = "device"
        PROVE  s.token.id \in DOMAIN devices
    BY <2>1 DEF SessionsKnown, Issued, Row, SessionTypeOK, Jwt
  <2>2. QED
    BY <1>1, <2>1 DEF NothingOutlivesSignOut
<1>5. QED
  BY <1>1, <1>2, <1>3, <1>4

LEMMA UseInv ==
    ASSUME SessionInv, NEW t \in Issued, Use(t)
    PROVE  SessionInv'
<1>1. /\ FingerprintCurrent' /\ NothingOutlivesSignOut'
      /\ devices' \in Seq(DeviceRow) /\ Len(devices') = Len(devices)
      /\ DOMAIN devices' = DOMAIN devices
      /\ Issued' = Issued
  BY TouchInv DEF Use
<1>2. SessionTypeOK' /\ SessionsKnown'
  BY <1>1 DEF SessionInv, SessionTypeOK, SessionsKnown, Use
<1>3. QED
  BY <1>1, <1>2 DEF SessionInv

LEMMA CallWaits ==
    ASSUME SessionInv, NEW c \in Call, NEW kind \in {"login", "mint", "revoke", "revokeAll"},
           NEW d \in 0..MaxDevice, kind = "revoke" => d \in DOMAIN devices, Waits(c, kind, d)
    PROVE  /\ calls' \in [Call -> [kind : {"idle", "login", "mint", "revoke", "revokeAll"}, device : 0..MaxDevice]]
           /\ \A e \in Call : calls'[e].kind = "revoke" => calls'[e].device \in DOMAIN devices
  BY DEF SessionInv, SessionTypeOK, SessionsKnown, Waits

LEMMA AuthCallArrivesInv ==
    ASSUME SessionInv, NEW c \in Call, NEW t \in Issued, AuthCallArrives(c, t)
    PROVE  SessionInv'
<1>1. \E kind \in {"mint", "revoke", "revokeAll"}, d \in 0..MaxDevice :
         Waits(c, kind, d) /\ (kind = "revoke" => d \in DOMAIN devices)
  <2>1. DOMAIN devices \subseteq 0..MaxDevice /\ 0 \in 0..MaxDevice
    BY SessionConstants DEF SessionInv, SessionTypeOK
  <2>2. QED
    BY <2>1 DEF AuthCallArrives
<1>2. PICK kind \in {"mint", "revoke", "revokeAll"}, d \in 0..MaxDevice :
         Waits(c, kind, d) /\ (kind = "revoke" => d \in DOMAIN devices)
  BY <1>1
<1>3. /\ calls' \in [Call -> [kind : {"idle", "login", "mint", "revoke", "revokeAll"}, device : 0..MaxDevice]]
      /\ \A e \in Call : calls'[e].kind = "revoke" => calls'[e].device \in DOMAIN devices
  BY <1>2, CallWaits
<1>4. serving /\ UNCHANGED <<config, stored, epoch, jwts, serving, sockets, day>> /\ devices' = Touched(t)
  BY <1>2 DEF Waits, AuthCallArrives
<1>5. /\ FingerprintCurrent' /\ NothingOutlivesSignOut'
      /\ devices' \in Seq(DeviceRow) /\ Len(devices') = Len(devices)
      /\ DOMAIN devices' = DOMAIN devices
      /\ Issued' = Issued
  BY <1>4, TouchInv
<1>6. SessionTypeOK' /\ SessionsKnown'
  BY <1>3, <1>4, <1>5 DEF SessionInv, SessionTypeOK, SessionsKnown
<1>7. QED
  BY <1>5, <1>6 DEF SessionInv

LEMMA LoginArrivesInv ==
    ASSUME SessionInv, NEW c \in Call, LoginArrives(c)
    PROVE  SessionInv'
<1> USE DEF SessionInv
<1>1. 0 \in 0..MaxDevice /\ Waits(c, "login", 0) /\ UNCHANGED devices
  BY SessionConstants DEF LoginArrives
<1>2. /\ calls' \in [Call -> [kind : {"idle", "login", "mint", "revoke", "revokeAll"}, device : 0..MaxDevice]]
      /\ \A e \in Call : calls'[e].kind = "revoke" => calls'[e].device \in DOMAIN devices
  BY <1>1, CallWaits
<1>3. UNCHANGED <<config, stored, epoch, devices, jwts, serving, sockets, day>>
  BY <1>1 DEF Waits
<1>4. SessionTypeOK' /\ SessionsKnown'
  BY <1>2, <1>3 DEF SessionTypeOK, SessionsKnown, Issued
<1>5. QED
  BY <1>3, <1>4 DEF FingerprintCurrent, NothingOutlivesSignOut

LEMMA CallReplies ==
    ASSUME SessionInv, NEW c \in Call, NEW kind, Replies(c, kind)
    PROVE  /\ calls' \in [Call -> [kind : {"idle", "login", "mint", "revoke", "revokeAll"}, device : 0..MaxDevice]]
           /\ \A e \in Call : calls'[e].kind = "revoke" => calls'[e].device \in DOMAIN devices
<1> USE SessionConstants DEF SessionInv, SessionTypeOK, SessionsKnown, Replies
<1>1. Idle \in [kind : {"idle", "login", "mint", "revoke", "revokeAll"}, device : 0..MaxDevice]
      /\ Idle.kind # "revoke"
  BY DEF Idle
<1>2. QED
  BY <1>1

LEMMA RefusedInv ==
    ASSUME SessionInv, NEW c \in Call, Refused(c)
    PROVE  SessionInv'
<1> USE DEF SessionInv
<1>1. /\ calls' \in [Call -> [kind : {"idle", "login", "mint", "revoke", "revokeAll"}, device : 0..MaxDevice]]
      /\ \A e \in Call : calls'[e].kind = "revoke" => calls'[e].device \in DOMAIN devices
  BY CallReplies DEF Refused
<1>2. UNCHANGED <<config, stored, epoch, devices, jwts, serving, sockets, day>>
  BY DEF Refused
<1>3. SessionTypeOK' /\ SessionsKnown'
  BY <1>1, <1>2 DEF SessionTypeOK, SessionsKnown, Issued
<1>4. QED
  BY <1>2, <1>3 DEF FingerprintCurrent, NothingOutlivesSignOut

LEMMA SignInInv ==
    ASSUME SessionInv, NEW c \in Call, SignIn(c)
    PROVE  SessionInv'
<1> USE DEF SessionInv
<1>1. /\ calls' \in [Call -> [kind : {"idle", "login", "mint", "revoke", "revokeAll"}, device : 0..MaxDevice]]
      /\ \A e \in Call : calls'[e].kind = "revoke" => calls'[e].device \in DOMAIN devices
  BY CallReplies DEF SignIn
<1> DEFINE j == [type |-> "jwt", key |-> config.key, ver |-> epoch, exp |-> day + JwtLife]
<1>2. /\ serving /\ jwts' = jwts \cup {j}
      /\ UNCHANGED <<config, stored, epoch, devices, serving, sockets, day>>
  BY DEF SignIn, Replies
<1>3. j \in Jwt /\ j.ver = epoch /\ j.key = config.key
  BY SessionConstants DEF SessionTypeOK, Config, Jwt
<1> HIDE DEF j
<1>4. SessionTypeOK'
  BY <1>1, <1>2, <1>3 DEF SessionTypeOK
<1>5. SessionsKnown'
  <2>1. Issued \subseteq Issued'
    BY <1>2 DEF Issued
  <2>2. \A s \in sockets' : s.token \in Issued'
    BY <1>2, <2>1 DEF SessionsKnown
  <2>3. \A k \in jwts' : k.ver <= epoch'
    BY <1>2, <1>3 DEF SessionsKnown, SessionTypeOK
  <2>4. QED
    BY <1>1, <1>2, <2>2, <2>3 DEF SessionsKnown
<1>6. QED
  BY <1>2, <1>3, <1>4, <1>5 DEF FingerprintCurrent, NothingOutlivesSignOut

\* A row at the end of the others, none of which changes.
LEMMA MintDeviceInv ==
    ASSUME SessionInv, NEW c \in Call, MintDevice(c)
    PROVE  SessionInv'
<1> USE DEF SessionInv
<1>1. /\ calls' \in [Call -> [kind : {"idle", "login", "mint", "revoke", "revokeAll"}, device : 0..MaxDevice]]
      /\ \A e \in Call : calls'[e].kind = "revoke" => calls'[e].device \in DOMAIN devices
  BY CallReplies DEF MintDevice
<1> DEFINE row == [revoked |-> FALSE, used |-> day, at |-> epoch]
<1>2. /\ serving /\ devices' = Append(devices, row) /\ Len(devices) < MaxDevice
      /\ UNCHANGED <<config, stored, epoch, jwts, serving, sockets, day>>
  BY DEF MintDevice, Replies
<1>3. row \in DeviceRow /\ row.at = epoch
  BY DEF SessionTypeOK, DeviceRow
<1> HIDE DEF row
<1>4. /\ devices' \in Seq(DeviceRow) /\ Len(devices') = Len(devices) + 1
      /\ DOMAIN devices \subseteq DOMAIN devices'
      /\ DOMAIN devices' = DOMAIN devices \cup {Len(devices) + 1}
      /\ \A d \in DOMAIN devices : devices'[d] = devices[d]
      /\ devices'[Len(devices) + 1] = row
  BY <1>2, <1>3, AppendProperties DEF SessionTypeOK
<1>5. SessionTypeOK'
  BY <1>1, <1>2, <1>4, SessionConstants DEF SessionTypeOK
<1>6. SessionsKnown'
  <2>1. Issued \subseteq Issued'
    BY <1>2, <1>4 DEF Issued
  <2>2. \A s \in sockets' : s.token \in Issued'
    BY <1>2, <2>1 DEF SessionsKnown
  <2>3. QED
    BY <1>1, <1>2, <1>4, <2>2 DEF SessionsKnown
<1>7. NothingOutlivesSignOut'
  <2>1. ASSUME NEW s \in sockets, s.token.type = "device"
        PROVE  s.token.id \in DOMAIN devices
    BY <2>1 DEF SessionsKnown, Issued, Row, SessionTypeOK, Jwt
  <2>2. QED
    BY <1>2, <1>3, <1>4, <2>1 DEF NothingOutlivesSignOut
<1>8. QED
  BY <1>2, <1>5, <1>6, <1>7 DEF FingerprintCurrent

\* The row and its sockets go together.
LEMMA RevokeDeviceInv ==
    ASSUME SessionInv, NEW c \in Call, RevokeDevice(c)
    PROVE  SessionInv'
<1> USE DEF SessionInv
<1> DEFINE d == calls[c].device
<1>1. /\ calls' \in [Call -> [kind : {"idle", "login", "mint", "revoke", "revokeAll"}, device : 0..MaxDevice]]
      /\ \A e \in Call : calls'[e].kind = "revoke" => calls'[e].device \in DOMAIN devices
  BY CallReplies DEF RevokeDevice
<1>2. /\ serving /\ d \in DOMAIN devices
      /\ devices' = [devices EXCEPT ![d].revoked = TRUE]
      /\ sockets' = {s \in sockets : s.token # Row(d)}
      /\ UNCHANGED <<config, stored, epoch, jwts, serving, day>>
  BY DEF RevokeDevice, Replies, SessionsKnown, disconnectSockets
<1> HIDE DEF d
<1> DEFINE row == [devices[d] EXCEPT !.revoked = TRUE]
<1>3. row \in DeviceRow /\ row.revoked /\ devices' = [devices EXCEPT ![d] = row]
  <2>1. devices \in Seq(DeviceRow) /\ DOMAIN devices = 1..Len(devices)
    BY DEF SessionTypeOK
  <2>2. devices[d] \in DeviceRow
    BY <1>2, <2>1
  <2>3. row \in DeviceRow /\ row.revoked
    BY <2>2 DEF DeviceRow
  <2>4. QED
    BY <1>2, <2>3
<1> HIDE DEF row
<1>4. /\ devices' \in Seq(DeviceRow) /\ Len(devices') = Len(devices)
      /\ DOMAIN devices' = DOMAIN devices
      /\ devices'[d].revoked
      /\ \A e \in DOMAIN devices : e # d => devices'[e] = devices[e]
  <2>1. devices \in Seq(DeviceRow) /\ DOMAIN devices = 1..Len(devices)
    BY DEF SessionTypeOK
  <2>2. QED
    <3>1. d \in 1..Len(devices)
      BY <1>2, <2>1
    <3>2. /\ devices' \in Seq(DeviceRow) /\ Len(devices') = Len(devices)
          /\ \A e \in 1..Len(devices) : devices'[e] = IF e = d THEN row ELSE devices[e]
      BY <1>3, <2>1, <3>1, ExceptSeq
    <3>3. DOMAIN devices' = 1..Len(devices)
      BY <3>2
    <3>4. QED
      BY <1>3, <2>1, <3>1, <3>2, <3>3
<1>5. SessionTypeOK'
  BY <1>1, <1>2, <1>4 DEF SessionTypeOK
<1>6. SessionsKnown'
  <2>1. Issued' = Issued
    BY <1>2, <1>4 DEF Issued
  <2>2. QED
    BY <1>1, <1>2, <1>4, <2>1 DEF SessionsKnown
<1>7. NothingOutlivesSignOut'
  <2>1. ASSUME NEW s \in sockets', s.token.type = "device"
        PROVE  s.token.id \in DOMAIN devices \ {d}
    BY <1>2, <2>1 DEF SessionsKnown, Issued, Row, SessionTypeOK, Jwt
  <2>2. QED
    BY <1>2, <1>4, <2>1 DEF NothingOutlivesSignOut
<1>8. QED
  BY <1>2, <1>5, <1>6, <1>7 DEF FingerprintCurrent

\* Every token that has a socket was issued, so none is left.
LEMMA RevokeAllInv ==
    ASSUME SessionInv, NEW c \in Call, RevokeAll(c)
    PROVE  SessionInv'
<1> USE DEF SessionInv
<1>1. /\ calls' \in [Call -> [kind : {"idle", "login", "mint", "revoke", "revokeAll"}, device : 0..MaxDevice]]
      /\ \A e \in Call : calls'[e].kind = "revoke" => calls'[e].device \in DOMAIN devices
  BY CallReplies DEF RevokeAll
<1>2. /\ serving /\ revokeAllSessions /\ UNCHANGED <<config, stored, jwts, serving, day>>
      /\ sockets' = {s \in sockets : s.token \notin Issued}
  BY DEF RevokeAll, Replies, disconnectSockets
<1>3. sockets' = {}
  BY <1>2 DEF SessionsKnown
<1>4. /\ epoch' = epoch + 1 /\ epoch' \in 1..MaxEpoch
      /\ devices' \in Seq(DeviceRow) /\ Len(devices') = Len(devices)
      /\ DOMAIN devices' = DOMAIN devices
      /\ \A d \in DOMAIN devices : devices'[d].revoked
  BY <1>2, RevokedRows
<1>5. SessionTypeOK'
  BY <1>1, <1>2, <1>3, <1>4 DEF SessionTypeOK
<1>6. SessionsKnown'
  BY <1>1, <1>2, <1>3, <1>4 DEF SessionsKnown, SessionTypeOK, Jwt
<1>7. QED
  BY <1>2, <1>3, <1>4, <1>5, <1>6 DEF FingerprintCurrent, NothingOutlivesSignOut

\* Any credential's expiry, on the rows as they are or just touched, and the
\* timer set for it are moments.
LEMMA ExpiryNat ==
    ASSUME SessionTypeOK, NEW t \in Issued, NEW rows \in Seq(DeviceRow),
           DOMAIN rows = DOMAIN devices
    PROVE  expiry(t, rows) \in Nat /\ TimerFor(expiry(t, rows)) \in Nat
<1>1. expiry(t, rows) \in Nat
  <2>1. CASE t.type = "jwt"
    BY <2>1 DEF expiry, Issued, Row, SessionTypeOK, Jwt
  <2>2. CASE t.type # "jwt"
    <3>1. t.id \in DOMAIN rows
      BY <2>2 DEF Issued, Row, SessionTypeOK, Jwt
    <3>2. rows[t.id] \in DeviceRow
      BY <3>1
    <3>3. QED
      BY <2>2, <3>2, SessionConstants DEF expiry, DeviceRow
  <2>3. QED
    BY <2>1, <2>2
<1>2. \A e \in Nat : TimerFor(e) \in Nat
  BY SessionConstants DEF TimerFor, SessionTypeOK
<1>3. QED
  BY <1>1, <1>2

\* The credential was accepted in the same turn.
LEMMA HandshakeInv ==
    ASSUME SessionInv, NEW t \in Issued, Handshake(t)
    PROVE  SessionInv'
<1> USE DEF SessionInv
<1> DEFINE s0 == [token |-> t, timer |-> TimerFor(expiry(t, devices'))]
<1>1. /\ serving /\ Accepted(t) /\ devices' = Touched(t) /\ sockets' = sockets \cup {s0}
      /\ UNCHANGED <<config, stored, epoch, jwts, serving, calls, day>>
  BY DEF Handshake
<1>2. /\ devices' \in Seq(DeviceRow) /\ Len(devices') = Len(devices)
      /\ DOMAIN devices' = DOMAIN devices
      /\ \A d \in DOMAIN devices : /\ devices'[d].revoked = devices[d].revoked
                                   /\ devices'[d].at = devices[d].at
  BY <1>1, TouchedRows
<1>3. Issued' = Issued
  BY <1>1, <1>2 DEF Issued
<1>4. s0 \in [token : Jwt \cup DeviceToken, timer : Nat]
  <2>1. TimerFor(expiry(t, devices')) \in Nat
    BY <1>2, ExpiryNat
  <2>2. t \in Jwt \cup DeviceToken
    BY DEF Issued, Row, SessionTypeOK, DeviceToken
  <2>3. QED
    BY <2>1, <2>2
<1>5. \/ t.type = "jwt" /\ t.ver = epoch
      \/ t.type = "device" /\ t.id \in DOMAIN devices /\ ~devices[t.id].revoked
  BY <1>1 DEF Accepted, Issued, Row, SessionTypeOK, Jwt
<1>6. s0.token = t
  OBVIOUS
<1> HIDE DEF s0
<1>7. SessionTypeOK'
  BY <1>1, <1>2, <1>4 DEF SessionTypeOK
<1>8. SessionsKnown'
  BY <1>1, <1>2, <1>3, <1>6 DEF SessionsKnown
<1>9. NothingOutlivesSignOut'
  <2>1. ASSUME NEW s \in sockets, s.token.type = "device"
        PROVE  s.token.id \in DOMAIN devices
    BY <2>1 DEF SessionsKnown, Issued, Row, SessionTypeOK, Jwt
  <2>2. QED
    BY <1>1, <1>2, <1>5, <1>6, <2>1 DEF NothingOutlivesSignOut
<1>10. QED
  BY <1>1, <1>7, <1>8, <1>9 DEF FingerprintCurrent

\* A socket that is looked at again, or goes: no other appears.
LEMMA SocketStepInv ==
    ASSUME SessionInv, NEW s \in sockets, TimerFires(s) \/ SocketCloses(s)
    PROVE  SessionInv'
<1> USE DEF SessionInv
<1> DEFINE again == [s EXCEPT !.timer = TimerFor(expiry(s.token, devices))]
<1>1. /\ UNCHANGED <<config, stored, epoch, devices, jwts, serving, calls, day>>
      /\ sockets' \subseteq sockets \cup {again}
  BY DEF TimerFires, SocketCloses, check
<1>2. s \in [token : Jwt \cup DeviceToken, timer : Nat] /\ s.token \in Issued
  BY DEF SessionsKnown, SessionTypeOK
<1>3. TimerFor(expiry(s.token, devices)) \in Nat
  BY <1>2, ExpiryNat DEF SessionTypeOK
<1>4. again \in [token : Jwt \cup DeviceToken, timer : Nat] /\ again.token = s.token
  BY <1>2, <1>3
<1> HIDE DEF again
<1>5. SessionTypeOK'
  BY <1>1, <1>4 DEF SessionTypeOK
<1>6. serving
  BY DEF SessionsKnown
<1>7. SessionsKnown'
  BY <1>1, <1>2, <1>4, <1>6 DEF SessionsKnown, Issued
<1>8. NothingOutlivesSignOut'
  BY <1>1, <1>4 DEF NothingOutlivesSignOut
<1>9. QED
  BY <1>1, <1>5, <1>7, <1>8 DEF FingerprintCurrent

LEMMA SessionNextInv == SessionInv /\ [SessionNext]_sessionVars => SessionInv'
<1> SUFFICES ASSUME SessionInv, [SessionNext]_sessionVars PROVE SessionInv'
  OBVIOUS
<1>1. CASE \E c \in Config : Start(c)
  BY <1>1, StartInv
<1>2. CASE Stop \/ DayPasses
  BY <1>2, StopInv, DayPassesInv
<1>3. CASE \E t \in Issued : Use(t) \/ Handshake(t) \/ \E c \in Call : AuthCallArrives(c, t)
  BY <1>3, UseInv, HandshakeInv, AuthCallArrivesInv
<1>4. CASE \E c \in Call :
             \/ LoginArrives(c) \/ Refused(c)
             \/ SignIn(c) \/ MintDevice(c) \/ RevokeDevice(c) \/ RevokeAll(c)
  BY <1>4, LoginArrivesInv, RefusedInv, SignInInv, MintDeviceInv, RevokeDeviceInv, RevokeAllInv
<1>5. CASE \E s \in sockets : TimerFires(s) \/ SocketCloses(s)
  BY <1>5, SocketStepInv
<1>6. CASE UNCHANGED sessionVars
  BY <1>6 DEF sessionVars, SessionInv, SessionTypeOK, FingerprintCurrent, SessionsKnown,
              NothingOutlivesSignOut, Issued
<1>7. QED
  BY <1>1, <1>2, <1>3, <1>4, <1>5, <1>6 DEF SessionNext

LEMMA SessionInvariant == SessionSpec => []SessionInv
<1>1. QED
  BY SessionInitInv, SessionNextInv, PTL DEF SessionSpec

\* Whatever the household's logins, keys and devices: after a sign-out, and
\* after a start with other credentials, every live device row is of the new
\* epoch and every open socket holds a token that is still good for it
\* (revokeAllSessions, syncCredentialFingerprint, disconnectSockets).
THEOREM SignOutIsComplete == SessionSpec => []NothingOutlivesSignOut
<1>1. SessionInv => NothingOutlivesSignOut
  BY DEF SessionInv
<1>2. QED
  BY <1>1, SessionInvariant, PTL

\* A token only stops being accepted in ways that last: time passes, the
\* epoch is never taken back, a row stays revoked, an idle device is not
\* touched unless it is accepted, and a key that comes back finds another epoch.
LEMMA RefusalLasts ==
    ASSUME SessionInv, SessionInv', [SessionNext]_sessionVars, NEW t \in Issued, ~Accepted(t)
    PROVE  ~Accepted(t)'
<1> USE DEF SessionInv
<1>1. t.type \in {"jwt", "device"}
  BY DEF Issued, Row, SessionTypeOK, Jwt
<1>2. day' >= day /\ day \in Nat /\ day' \in Nat /\ epoch' >= epoch /\ epoch \in Nat /\ epoch' \in Nat
  <2>1. epoch' = epoch \/ epoch' = epoch + 1
    BY DEF SessionNext, sessionVars, Start, syncCredentialFingerprint, revokeAllSessions, Stop,
           DayPasses, Use, Handshake, AuthCallArrives, Waits, LoginArrives, Refused, SignIn,
           MintDevice, RevokeDevice, RevokeAll, TimerFires, SocketCloses
  <2>2. day' = day \/ day' = day + 1
    BY DEF SessionNext, sessionVars, Start, Stop, DayPasses, Use, Handshake, AuthCallArrives, Waits,
           LoginArrives, Refused, SignIn, MintDevice, RevokeDevice, RevokeAll, TimerFires, SocketCloses
  <2>3. QED
    BY <2>1, <2>2 DEF SessionTypeOK
<1>3. CASE t.type = "jwt"
  <2>1. t \in jwts /\ t \in Jwt /\ t.ver <= epoch
    BY <1>3 DEF Issued, Row, SessionTypeOK, SessionsKnown
  <2>2. CASE day >= t.exp \/ t.ver # epoch
    BY <1>2, <1>3, <2>1, <2>2 DEF Accepted, Jwt
  <2>3. CASE t.key # config.key /\ t.ver = epoch
    <3>1. stored = fingerprint(config) /\ stored.key # Unset
      BY <2>1, <2>3 DEF FingerprintCurrent
    <3>2. config' = config \/ \E c \in Config : Start(c)
      BY DEF SessionNext, sessionVars, Stop, DayPasses, Use, Handshake, AuthCallArrives, Waits,
             LoginArrives, Refused, SignIn, MintDevice, RevokeDevice, RevokeAll, TimerFires, SocketCloses
    <3>3. CASE config' = config
      BY <1>3, <2>3, <3>3 DEF Accepted
    <3>4. CASE config' # config
      <4>1. PICK c \in Config : Start(c)
        BY <3>2, <3>4
      <4>2. stored # fingerprint(c) /\ stored.login # Unset
        BY <3>1, <3>4, <4>1, SessionConstants
        DEF Start, fingerprint, Config, SessionTypeOK
      <4>3. epoch' = epoch + 1
        BY <3>1, <4>1, <4>2 DEF Start, syncCredentialFingerprint, revokeAllSessions
      <4>4. QED
        BY <1>2, <1>3, <2>3, <4>3 DEF Accepted
    <3>5. QED
      BY <3>3, <3>4
  <2>4. QED
    BY <1>2, <1>3, <2>1, <2>2, <2>3 DEF Accepted, Jwt
<1>4. CASE t.type = "device"
  <2>1. t.id \in DOMAIN devices /\ t = Row(t.id)
    BY <1>4 DEF Issued, Row, SessionTypeOK, Jwt
  <2>2. devices \in Seq(DeviceRow) /\ devices[t.id] \in DeviceRow
    BY <2>1 DEF SessionTypeOK
  <2>3. /\ devices[t.id].revoked => devices'[t.id].revoked
        /\ devices'[t.id].revoked \/ devices'[t.id].used = devices[t.id].used
    <3>1. CASE UNCHANGED devices
      BY <2>2, <3>1 DEF DeviceRow
    <3>2. CASE \E u \in Issued : Accepted(u) /\ devices' = Touched(u)
      <4>1. PICK u \in Issued : Accepted(u) /\ devices' = Touched(u)
        BY <3>2
      <4>2. u # t
        BY <4>1
      <4>3. devices'[t.id] = devices[t.id]
        BY <2>1, <4>1, <4>2, TouchedRows
      <4>4. QED
        BY <2>2, <4>3 DEF DeviceRow
    <3>3. CASE revokeAllSessions
      BY <2>1, <3>3, RevokedRows
    <3>4. CASE \E c \in Call : MintDevice(c)
      <4>1. PICK row : devices' = Append(devices, row)
        BY <3>4 DEF MintDevice
      <4>2. devices'[t.id] = devices[t.id]
        BY <2>1, <2>2, <4>1
      <4>3. QED
        BY <2>2, <4>2 DEF DeviceRow
    <3>5. CASE \E c \in Call : RevokeDevice(c)
      <4>1. PICK d : devices' = [devices EXCEPT ![d].revoked = TRUE]
        BY <3>5 DEF RevokeDevice
      <4>2. CASE d = t.id
        BY <2>1, <2>2, <4>1, <4>2 DEF DeviceRow
      <4>3. CASE d # t.id
        BY <2>1, <2>2, <4>1, <4>3 DEF DeviceRow
      <4>4. QED
        BY <4>2, <4>3
    <3>6. QED
      BY <3>1, <3>2, <3>3, <3>4, <3>5
      DEF SessionNext, sessionVars, Start, syncCredentialFingerprint, Stop, DayPasses, Use,
          Handshake, AuthCallArrives, Waits, LoginArrives, Refused, SignIn, RevokeAll,
          TimerFires, SocketCloses
  <2>4. CASE devices[t.id].revoked
    BY <1>4, <2>3, <2>4 DEF Accepted
  <2>5. CASE ~devices[t.id].revoked /\ ~(day - devices[t.id].used <= MaxIdle)
    <3>1. CASE devices'[t.id].revoked
      BY <1>4, <3>1 DEF Accepted
    <3>2. CASE ~devices'[t.id].revoked
      <4>1. devices'[t.id].used = devices[t.id].used /\ devices[t.id].used \in Nat
        BY <2>2, <2>3, <3>2 DEF DeviceRow
      <4>2. ~(day' - devices'[t.id].used <= MaxIdle)
        BY <1>2, <2>5, <4>1, SessionConstants
      <4>3. QED
        BY <1>4, <4>2 DEF Accepted
    <3>3. QED
      BY <3>1, <3>2
  <2>6. QED
    BY <1>4, <2>4, <2>5 DEF Accepted
<1>5. QED
  BY <1>1, <1>3, <1>4

\* Refused once, refused for good: no sequence of restarts with other logins
\* and keys, and then with the old ones, makes a token good again.
THEOREM EndedTokensStayEnded == SessionSpec => EndedForGood
<1> DEFINE Lasts == \A t \in Issued : ~Accepted(t) => ~Accepted(t)'
<1>1. SessionInv /\ SessionInv' /\ [SessionNext]_sessionVars => Lasts
  BY RefusalLasts
<1>2. SessionInv /\ SessionInv' /\ [SessionNext]_sessionVars => [Lasts]_sessionVars
  BY <1>1
<1> HIDE DEF Lasts
<1>3. SessionSpec => [][Lasts]_sessionVars
  BY <1>2, SessionInvariant, PTL DEF SessionSpec
<1>4. QED
  BY <1>3 DEF EndedForGood, Lasts

------------------------------------------------------------------------------
(***************************************************************************)
(* Socket limits.                                                          *)
(***************************************************************************)
Of(S, c) == {r \in S : r.client = c}

\* A handshake more, or less, in a set counts for its client alone.
LEMMA OneMore ==
    ASSUME NEW S, IsFiniteSet(S), NEW r, r \notin S
    PROVE  /\ IsFiniteSet(S \cup {r}) /\ Cardinality(S) \in Nat
           /\ Cardinality(S \cup {r}) = Cardinality(S) + 1
           /\ \A c : /\ Cardinality(Of(S, c)) \in Nat
                     /\ r.client = c => Cardinality(Of(S \cup {r}, c)) = Cardinality(Of(S, c)) + 1
                     /\ r.client # c => Cardinality(Of(S \cup {r}, c)) = Cardinality(Of(S, c))
<1>1. /\ IsFiniteSet(S \cup {r}) /\ Cardinality(S) \in Nat
      /\ Cardinality(S \cup {r}) = Cardinality(S) + 1
  BY FS_AddElement, FS_CardinalityType
<1>2. ASSUME NEW c
      PROVE  /\ Cardinality(Of(S, c)) \in Nat
             /\ r.client = c => Cardinality(Of(S \cup {r}, c)) = Cardinality(Of(S, c)) + 1
             /\ r.client # c => Cardinality(Of(S \cup {r}, c)) = Cardinality(Of(S, c))
  <2>1. IsFiniteSet(Of(S, c)) /\ r \notin Of(S, c)
    BY FS_Subset DEF Of
  <2>2. Cardinality(Of(S, c)) \in Nat
    BY <2>1, FS_CardinalityType
  <2>3. CASE r.client = c
    <3>1. Of(S \cup {r}, c) = Of(S, c) \cup {r}
      BY <2>3 DEF Of
    <3>2. QED
      BY <2>1, <2>2, <2>3, <3>1, FS_AddElement
  <2>4. CASE r.client # c
    <3>1. Of(S \cup {r}, c) = Of(S, c)
      BY <2>4 DEF Of
    <3>2. QED
      BY <2>2, <2>4, <3>1
  <2>5. QED
    BY <2>2, <2>3, <2>4
<1>3. QED
  BY <1>1, <1>2

LEMMA OneLess ==
    ASSUME NEW S, IsFiniteSet(S), NEW r \in S
    PROVE  /\ IsFiniteSet(S \ {r}) /\ Cardinality(S \ {r}) \in Nat
           /\ Cardinality(S) = Cardinality(S \ {r}) + 1
           /\ \A c : /\ Cardinality(Of(S \ {r}, c)) \in Nat
                     /\ r.client = c => Cardinality(Of(S, c)) = Cardinality(Of(S \ {r}, c)) + 1
                     /\ r.client # c => Cardinality(Of(S, c)) = Cardinality(Of(S \ {r}, c))
<1>1. IsFiniteSet(S \ {r}) /\ r \notin S \ {r} /\ (S \ {r}) \cup {r} = S
  BY FS_Subset
<1> DEFINE T == S \ {r}
<1>2. IsFiniteSet(T) /\ r \notin T /\ T \cup {r} = S
  BY <1>1
<1> HIDE DEF T
<1>3. /\ IsFiniteSet(T \cup {r}) /\ Cardinality(T) \in Nat
      /\ Cardinality(T \cup {r}) = Cardinality(T) + 1
      /\ \A c : /\ Cardinality(Of(T, c)) \in Nat
                /\ r.client = c => Cardinality(Of(T \cup {r}, c)) = Cardinality(Of(T, c)) + 1
                /\ r.client # c => Cardinality(Of(T \cup {r}, c)) = Cardinality(Of(T, c))
  BY <1>2, OneMore
<1>4. QED
  BY <1>2, <1>3 DEF T

\* The counters of the invariant, by the operator of the lemmas.
LEMMA SlotsByClient ==
    SlotsCounted <=>
      /\ openTotal = Cardinality(sessions)
      /\ Cardinality(sessions) + Cardinality(pending) <= TotalMax
      /\ \A c \in Client :
           /\ openOf[c] = Cardinality(Of(sessions, c)) /\ pendingOf[c] = Cardinality(Of(pending, c))
           /\ Cardinality(Of(sessions, c)) + Cardinality(Of(pending, c)) <= PerClientMax
  BY DEF SlotsCounted, Of

LEMMA SlotsByClientNext ==
    SlotsCounted' <=>
      /\ openTotal' = Cardinality(sessions')
      /\ Cardinality(sessions') + Cardinality(pending') <= TotalMax
      /\ \A c \in Client :
           /\ openOf'[c] = Cardinality(Of(sessions', c)) /\ pendingOf'[c] = Cardinality(Of(pending', c))
           /\ Cardinality(Of(sessions', c)) + Cardinality(Of(pending', c)) <= PerClientMax
  BY DEF SlotsCounted, Of

LEMMA LimitInitInv == LimitInit => LimitInv
<1> SUFFICES ASSUME LimitInit PROVE LimitInv
  OBVIOUS
<1>1. \A c : Of({}, c) = {}
  BY DEF Of
<1>2. IsFiniteSet({}) /\ Cardinality({}) = 0
  BY FS_EmptySet
<1>3. LimitTypeOK
  BY DEF LimitInit, LimitTypeOK
<1>4. HandshakesOnce
  BY <1>2 DEF LimitInit, HandshakesOnce
<1>5. SlotsCounted
  BY <1>1, <1>2, SlotsByClient, LimitAssumption DEF LimitInit
<1>6. QED
  BY <1>3, <1>4, <1>5 DEF LimitInv

LEMMA allowRequestInv ==
    ASSUME LimitInv, NEW r \in EngineRequest, allowRequest(r)
    PROVE  LimitInv'
<1> USE DEF LimitInv
<1>1. r.client \in Client
  BY DEF Client
<1>2. CASE UNCHANGED <<pending, pendingOf, underway>>
  BY <1>2 DEF allowRequest, LimitTypeOK, HandshakesOnce, SlotsCounted
<1>3. CASE /\ HasRoom(r)
           /\ pending' = pending \cup {r}
           /\ pendingOf' = [pendingOf EXCEPT ![r.client] = @ + 1]
           /\ underway' = underway \cup {r}
  <2>1. /\ r \notin asked /\ asked' = asked \cup {r}
        /\ UNCHANGED <<expired, sessions, openOf, openTotal, unwelcome>>
    BY DEF allowRequest
  <2>2. LimitTypeOK'
    BY <1>1, <1>3, <2>1 DEF LimitTypeOK
  <2>3. r \notin pending
    BY <2>1 DEF HandshakesOnce
  <2>4. /\ IsFiniteSet(pending') /\ Cardinality(pending) \in Nat
        /\ Cardinality(pending') = Cardinality(pending) + 1
        /\ \A c : /\ Cardinality(Of(pending, c)) \in Nat
                  /\ r.client = c => Cardinality(Of(pending', c)) = Cardinality(Of(pending, c)) + 1
                  /\ r.client # c => Cardinality(Of(pending', c)) = Cardinality(Of(pending, c))
    BY <1>3, <2>3, OneMore DEF HandshakesOnce
  <2>5. HandshakesOnce'
    BY <1>3, <2>1, <2>4 DEF HandshakesOnce
  <2>6. /\ openTotal' = Cardinality(sessions')
        /\ Cardinality(sessions') + Cardinality(pending') <= TotalMax
    BY <1>3, <2>1, <2>4, SlotsByClient, LimitAssumption DEF HasRoom, LimitTypeOK
  <2>7. ASSUME NEW c \in Client
        PROVE  /\ openOf'[c] = Cardinality(Of(sessions', c)) /\ pendingOf'[c] = Cardinality(Of(pending', c))
               /\ Cardinality(Of(sessions', c)) + Cardinality(Of(pending', c)) <= PerClientMax
    <3>1. /\ openOf[c] = Cardinality(Of(sessions, c)) /\ pendingOf[c] = Cardinality(Of(pending, c))
          /\ openOf[c] + pendingOf[c] <= PerClientMax /\ openOf[c] \in Nat /\ pendingOf[c] \in Nat
      BY SlotsByClient DEF LimitTypeOK
    <3>2. CASE r.client = c
      <4>1. openOf[c] + pendingOf[c] < PerClientMax
        BY <1>3, <3>2 DEF HasRoom
      <4>2. pendingOf'[c] = pendingOf[c] + 1
        BY <1>1, <1>3, <3>2 DEF LimitTypeOK
      <4>3. Cardinality(Of(pending', c)) = Cardinality(Of(pending, c)) + 1
        BY <2>4, <3>2
      <4>4. QED
        BY <2>1, <3>1, <4>1, <4>2, <4>3, LimitAssumption
    <3>3. CASE r.client # c
      <4>1. pendingOf'[c] = pendingOf[c] /\ Cardinality(Of(pending', c)) = Cardinality(Of(pending, c))
        BY <1>1, <1>3, <2>4, <3>3 DEF LimitTypeOK
      <4>2. QED
        BY <2>1, <3>1, <4>1
    <3>4. QED
      BY <3>2, <3>3
  <2>8. SlotsCounted'
    BY <2>6, <2>7, SlotsByClientNext
  <2>9. QED
    BY <2>2, <2>5, <2>8
<1>4. QED
  BY <1>2, <1>3 DEF allowRequest

\* A slot given back, or given back before.
LEMMA ReleasedSlot ==
    ASSUME LimitInv, NEW r \in EngineRequest, releaseSlot(r)
    PROVE  /\ pending' = pending \ {r} /\ IsFiniteSet(pending')
           /\ pendingOf' \in [Client -> Nat]
           /\ \A c \in Client :
                /\ pendingOf'[c] = Cardinality(Of(pending', c))
                /\ pendingOf'[c] <= pendingOf[c]
                /\ r \in pending /\ r.client = c => pendingOf'[c] = pendingOf[c] - 1
                /\ r.client # c => pendingOf'[c] = pendingOf[c]
           /\ Cardinality(pending) \in Nat /\ Cardinality(pending') \in Nat
           /\ Cardinality(pending') <= Cardinality(pending)
           /\ r \in pending => Cardinality(pending') = Cardinality(pending) - 1
<1> USE DEF LimitInv
<1>1. pending' = pending \ {r} /\ r.client \in Client /\ IsFiniteSet(pending)
  BY DEF releaseSlot, Client, HandshakesOnce
<1>2. \A c \in Client : pendingOf[c] = Cardinality(Of(pending, c)) /\ pendingOf[c] \in Nat
  BY SlotsByClient DEF LimitTypeOK
<1>3. CASE r \notin pending
  <2>1. pending' = pending /\ pendingOf' = pendingOf
    BY <1>1, <1>3 DEF releaseSlot
  <2>2. Cardinality(pending) \in Nat
    BY <1>1, FS_CardinalityType
  <2>3. QED
    BY <1>1, <1>2, <1>3, <2>1, <2>2 DEF LimitTypeOK
<1>4. CASE r \in pending
  <2>1. /\ IsFiniteSet(pending \ {r}) /\ Cardinality(pending \ {r}) \in Nat
        /\ Cardinality(pending) = Cardinality(pending \ {r}) + 1
        /\ \A c : /\ Cardinality(Of(pending \ {r}, c)) \in Nat
                  /\ r.client = c => Cardinality(Of(pending, c)) = Cardinality(Of(pending \ {r}, c)) + 1
                  /\ r.client # c => Cardinality(Of(pending, c)) = Cardinality(Of(pending \ {r}, c))
    BY <1>1, <1>4, OneLess
  <2>2. pendingOf[r.client] > 0
    BY <1>1, <1>2, <2>1
  <2>3. pendingOf' = [pendingOf EXCEPT ![r.client] = @ - 1]
    BY <1>1, <1>4, <2>2 DEF releaseSlot, Less
  <2>4. /\ pendingOf' \in [Client -> Nat]
        /\ \A c \in Client : /\ r.client = c => pendingOf'[c] = pendingOf[c] - 1
                             /\ r.client # c => pendingOf'[c] = pendingOf[c]
    BY <1>1, <1>2, <2>2, <2>3 DEF LimitTypeOK
  <2>5. ASSUME NEW c \in Client
        PROVE  pendingOf'[c] = Cardinality(Of(pending', c)) /\ pendingOf'[c] <= pendingOf[c]
    <3>1. pendingOf[c] = Cardinality(Of(pending, c)) /\ pendingOf[c] \in Nat
      BY <1>2
    <3>2. CASE r.client = c
      <4>1. pendingOf'[c] = pendingOf[c] - 1
        BY <2>4, <3>2
      <4>2. Cardinality(Of(pending, c)) = Cardinality(Of(pending', c)) + 1 /\ Cardinality(Of(pending', c)) \in Nat
        BY <1>1, <2>1, <3>2
      <4>3. QED
        BY <3>1, <4>1, <4>2
    <3>3. CASE r.client # c
      <4>1. pendingOf'[c] = pendingOf[c]
        BY <2>4, <3>3
      <4>2. Cardinality(Of(pending, c)) = Cardinality(Of(pending', c))
        BY <1>1, <2>1, <3>3
      <4>3. QED
        BY <3>1, <4>1, <4>2
    <3>4. QED
      BY <3>2, <3>3
  <2>6. /\ IsFiniteSet(pending') /\ Cardinality(pending') \in Nat /\ Cardinality(pending) \in Nat
        /\ Cardinality(pending') = Cardinality(pending) - 1
    BY <1>1, <2>1
  <2>7. \A c \in Client :
          /\ pendingOf'[c] = Cardinality(Of(pending', c)) /\ pendingOf'[c] <= pendingOf[c]
          /\ r.client = c => pendingOf'[c] = pendingOf[c] - 1
          /\ r.client # c => pendingOf'[c] = pendingOf[c]
    BY <2>4, <2>5
  <2>8. Cardinality(pending') <= Cardinality(pending)
    BY <2>6
  <2>9. QED
    BY <1>1, <1>4, <2>4, <2>6, <2>7, <2>8
<1>5. QED
  BY <1>3, <1>4

LEMMA ReleaseInv ==
    ASSUME LimitInv, NEW r \in EngineRequest, TimesOut(r) \/ ConnectionError(r)
    PROVE  LimitInv'
<1> USE DEF LimitInv
<1>1. releaseSlot(r) /\ UNCHANGED <<asked, sessions, openOf, openTotal, unwelcome>>
  BY DEF TimesOut, ConnectionError
<1>2. /\ pending' = pending \ {r} /\ IsFiniteSet(pending')
      /\ pendingOf' \in [Client -> Nat]
      /\ \A c \in Client :
           /\ pendingOf'[c] = Cardinality(Of(pending', c))
           /\ pendingOf'[c] <= pendingOf[c]
           /\ r \in pending /\ r.client = c => pendingOf'[c] = pendingOf[c] - 1
           /\ r.client # c => pendingOf'[c] = pendingOf[c]
      /\ Cardinality(pending) \in Nat /\ Cardinality(pending') \in Nat
      /\ Cardinality(pending') <= Cardinality(pending)
      /\ r \in pending => Cardinality(pending') = Cardinality(pending) - 1
  BY <1>1, ReleasedSlot
<1>3. LimitTypeOK' /\ HandshakesOnce'
  BY <1>1, <1>2 DEF LimitTypeOK, HandshakesOnce, TimesOut, ConnectionError
<1>4. SlotsCounted'
  <2>1. /\ openTotal' = Cardinality(sessions')
        /\ Cardinality(sessions') + Cardinality(pending') <= TotalMax
    BY <1>1, <1>2, SlotsByClient, LimitAssumption DEF LimitTypeOK
  <2>2. ASSUME NEW c \in Client
        PROVE  /\ openOf'[c] = Cardinality(Of(sessions', c)) /\ pendingOf'[c] = Cardinality(Of(pending', c))
               /\ Cardinality(Of(sessions', c)) + Cardinality(Of(pending', c)) <= PerClientMax
    <3>1. /\ openOf[c] = Cardinality(Of(sessions, c)) /\ pendingOf[c] = Cardinality(Of(pending, c))
          /\ openOf[c] + pendingOf[c] <= PerClientMax /\ openOf[c] \in Nat /\ pendingOf[c] \in Nat
      BY SlotsByClient DEF LimitTypeOK
    <3>2. pendingOf'[c] \in Nat /\ pendingOf'[c] <= pendingOf[c]
      BY <1>2, <3>1
    <3>3. QED
      BY <1>1, <1>2, <3>1, <3>2, LimitAssumption
  <2>3. QED
    BY <2>1, <2>2, SlotsByClientNext
<1>5. QED
  BY <1>3, <1>4

\* The reservation becomes a session: what is held stays as it was.
LEMMA ConnectionInv ==
    ASSUME LimitInv, NEW r \in EngineRequest, Connection(r)
    PROVE  LimitInv'
<1> USE DEF LimitInv
<1>1. /\ r \in underway /\ underway' = underway \ {r} /\ UNCHANGED <<asked, expired, unwelcome>>
      /\ r.client \in Client
  BY DEF Connection, Client
<1>2. CASE r \in expired
  BY <1>1, <1>2 DEF Connection, TakeSession, LimitTypeOK, HandshakesOnce, SlotsCounted
<1>3. CASE r \notin expired
  <2>1. /\ releaseSlot(r) /\ sessions' = sessions \cup {r}
        /\ openOf' = [openOf EXCEPT ![r.client] = @ + 1] /\ openTotal' = openTotal + 1
    BY <1>3 DEF Connection, TakeSession, CountSession
  <2>2. r \in pending /\ r \notin sessions
    BY <1>1, <1>3 DEF HandshakesOnce
  <2>3. /\ pending' = pending \ {r} /\ IsFiniteSet(pending')
        /\ pendingOf' \in [Client -> Nat]
        /\ \A c \in Client :
             /\ pendingOf'[c] = Cardinality(Of(pending', c))
             /\ pendingOf'[c] <= pendingOf[c]
             /\ r \in pending /\ r.client = c => pendingOf'[c] = pendingOf[c] - 1
             /\ r.client # c => pendingOf'[c] = pendingOf[c]
        /\ Cardinality(pending) \in Nat /\ Cardinality(pending') \in Nat
        /\ Cardinality(pending') <= Cardinality(pending)
        /\ r \in pending => Cardinality(pending') = Cardinality(pending) - 1
    BY <2>1, ReleasedSlot
  <2>4. /\ IsFiniteSet(sessions') /\ Cardinality(sessions) \in Nat
        /\ Cardinality(sessions') = Cardinality(sessions) + 1
        /\ \A c : /\ Cardinality(Of(sessions, c)) \in Nat
                  /\ r.client = c => Cardinality(Of(sessions', c)) = Cardinality(Of(sessions, c)) + 1
                  /\ r.client # c => Cardinality(Of(sessions', c)) = Cardinality(Of(sessions, c))
    BY <2>1, <2>2, OneMore DEF HandshakesOnce
  <2>5. LimitTypeOK'
    <3>1. openOf' \in [Client -> Nat] /\ openTotal' \in Nat
      BY <1>1, <2>1 DEF LimitTypeOK
    <3>2. {asked, pending, expired, underway, sessions, unwelcome}' \subseteq SUBSET EngineRequest
      BY <1>1, <2>1, <2>3 DEF LimitTypeOK
    <3>3. QED
      BY <2>3, <3>1, <3>2 DEF LimitTypeOK
  <2>6. HandshakesOnce'
    BY <1>1, <1>3, <2>1, <2>2, <2>3, <2>4 DEF HandshakesOnce
  <2>7. /\ openTotal' = Cardinality(sessions')
        /\ Cardinality(sessions') + Cardinality(pending') <= TotalMax
    BY <2>1, <2>2, <2>3, <2>4, SlotsByClient, LimitAssumption
  <2>8. ASSUME NEW c \in Client
        PROVE  /\ openOf'[c] = Cardinality(Of(sessions', c)) /\ pendingOf'[c] = Cardinality(Of(pending', c))
               /\ Cardinality(Of(sessions', c)) + Cardinality(Of(pending', c)) <= PerClientMax
    <3>1. /\ openOf[c] = Cardinality(Of(sessions, c)) /\ pendingOf[c] = Cardinality(Of(pending, c))
          /\ openOf[c] + pendingOf[c] <= PerClientMax /\ openOf[c] \in Nat /\ pendingOf[c] \in Nat
      BY SlotsByClient DEF LimitTypeOK
    <3>2. /\ r.client = c => openOf'[c] = openOf[c] + 1
          /\ r.client # c => openOf'[c] = openOf[c]
      BY <1>1, <2>1, <3>1 DEF LimitTypeOK
    <3>3. /\ pendingOf'[c] = Cardinality(Of(pending', c))
          /\ r.client = c => pendingOf'[c] = pendingOf[c] - 1
          /\ r.client # c => pendingOf'[c] = pendingOf[c]
      BY <2>2, <2>3
    <3>4. Cardinality(Of(sessions', c)) = openOf'[c]
      BY <2>4, <3>1, <3>2
    <3>5. openOf'[c] + pendingOf'[c] = openOf[c] + pendingOf[c]
      BY <3>1, <3>2, <3>3
    <3>6. QED
      BY <3>1, <3>3, <3>4, <3>5
  <2>9. SlotsCounted'
    BY <2>7, <2>8, SlotsByClientNext
  <2>10. QED
    BY <2>5, <2>6, <2>9
<1>4. QED
  BY <1>2, <1>3

\* The counters of the session's own client, and the total, go down.
LEMMA ClosesInv ==
    ASSUME LimitInv, NEW r \in EngineRequest, Closes(r)
    PROVE  LimitInv'
<1> USE DEF LimitInv
<1>1. /\ r \in sessions /\ sessions' = sessions \ {r} /\ unwelcome' = unwelcome \ {r}
      /\ openOf' = Less(openOf, r.client) /\ openTotal' = openTotal - 1
      /\ UNCHANGED <<asked, pending, pendingOf, expired, underway>>
      /\ r.client \in Client
  BY DEF Closes, Client
<1>2. /\ IsFiniteSet(sessions') /\ Cardinality(sessions') \in Nat
      /\ Cardinality(sessions) = Cardinality(sessions') + 1
      /\ \A c : /\ Cardinality(Of(sessions', c)) \in Nat
                /\ r.client = c => Cardinality(Of(sessions, c)) = Cardinality(Of(sessions', c)) + 1
                /\ r.client # c => Cardinality(Of(sessions, c)) = Cardinality(Of(sessions', c))
  <2>1. IsFiniteSet(sessions)
    BY DEF HandshakesOnce
  <2>2. /\ IsFiniteSet(sessions \ {r}) /\ Cardinality(sessions \ {r}) \in Nat
        /\ Cardinality(sessions) = Cardinality(sessions \ {r}) + 1
        /\ \A c : /\ Cardinality(Of(sessions \ {r}, c)) \in Nat
                  /\ r.client = c => Cardinality(Of(sessions, c)) = Cardinality(Of(sessions \ {r}, c)) + 1
                  /\ r.client # c => Cardinality(Of(sessions, c)) = Cardinality(Of(sessions \ {r}, c))
    BY <1>1, <2>1, OneLess
  <2>3. QED
    BY <1>1, <2>2
<1>3. \A c \in Client :
        /\ openOf[c] = Cardinality(Of(sessions, c)) /\ pendingOf[c] = Cardinality(Of(pending, c))
        /\ openOf[c] + pendingOf[c] <= PerClientMax /\ openOf[c] \in Nat /\ pendingOf[c] \in Nat
  BY SlotsByClient DEF LimitTypeOK
<1>4. openOf[r.client] > 0
  BY <1>1, <1>2, <1>3
<1>5. /\ openOf' \in [Client -> Nat]
      /\ \A c \in Client : /\ r.client = c => openOf'[c] = openOf[c] - 1
                           /\ r.client # c => openOf'[c] = openOf[c]
  BY <1>1, <1>3, <1>4 DEF Less, LimitTypeOK
<1>6. openTotal' = Cardinality(sessions')
  BY <1>1, <1>2, SlotsByClient
<1>7. LimitTypeOK' /\ HandshakesOnce'
  BY <1>1, <1>2, <1>5, <1>6 DEF LimitTypeOK, HandshakesOnce
<1>8. Cardinality(sessions') + Cardinality(pending') <= TotalMax
  <2>1. Cardinality(pending) \in Nat
    BY FS_CardinalityType DEF HandshakesOnce
  <2>2. QED
    BY <1>1, <1>2, <2>1, SlotsByClient, LimitAssumption
<1>9. ASSUME NEW c \in Client
      PROVE  /\ openOf'[c] = Cardinality(Of(sessions', c)) /\ pendingOf'[c] = Cardinality(Of(pending', c))
             /\ Cardinality(Of(sessions', c)) + Cardinality(Of(pending', c)) <= PerClientMax
  <2>1. openOf[c] = Cardinality(Of(sessions, c)) /\ openOf[c] \in Nat /\ openOf'[c] \in Nat
    BY <1>3, <1>5
  <2>2. openOf'[c] = Cardinality(Of(sessions', c)) /\ openOf'[c] <= openOf[c]
    <3>1. CASE r.client = c
      <4>1. openOf'[c] = openOf[c] - 1
        BY <1>5, <3>1
      <4>2. Cardinality(Of(sessions, c)) = Cardinality(Of(sessions', c)) + 1 /\ Cardinality(Of(sessions', c)) \in Nat
        BY <1>2, <3>1
      <4>3. QED
        BY <2>1, <4>1, <4>2
    <3>2. CASE r.client # c
      <4>1. openOf'[c] = openOf[c]
        BY <1>5, <3>2
      <4>2. Cardinality(Of(sessions, c)) = Cardinality(Of(sessions', c))
        BY <1>2, <3>2
      <4>3. QED
        BY <2>1, <4>1, <4>2
    <3>3. QED
      BY <3>1, <3>2
  <2>3. QED
    BY <1>1, <1>3, <2>1, <2>2, LimitAssumption
<1>10. SlotsCounted'
  BY <1>6, <1>8, <1>9, SlotsByClientNext
<1>11. QED
  BY <1>7, <1>10

LEMMA LimitNextInv == LimitInv /\ [LimitNext]_limitVars => LimitInv'
<1> SUFFICES ASSUME LimitInv, [LimitNext]_limitVars PROVE LimitInv'
  OBVIOUS
<1>1. CASE UNCHANGED limitVars
  BY <1>1 DEF limitVars, LimitInv, LimitTypeOK, HandshakesOnce, SlotsCounted
<1>2. ASSUME NEW r \in EngineRequest, ClientLost(r) \/ Unauthorized(r) PROVE LimitInv'
  BY <1>2 DEF ClientLost, Unauthorized, LimitInv, LimitTypeOK, HandshakesOnce, SlotsCounted
<1>3. QED
  BY <1>1, <1>2, allowRequestInv, ReleaseInv, ConnectionInv, ClosesInv DEF LimitNext

LEMMA LimitInvariant == LimitSpec => []LimitInv
<1>1. QED
  BY LimitInitInv, LimitNextInv, PTL DEF LimitSpec

\* For every set of handshakes and every cap: the counters of open and of
\* reserved slots are exact, and no more is held than the caps allow, however
\* connections, errors and time-outs of the reservations interleave.
THEOREM SlotsAlwaysCounted == LimitSpec => []SlotsCounted
<1>1. LimitInv => SlotsCounted
  BY DEF LimitInv
<1>2. QED
  BY <1>1, LimitInvariant, PTL

------------------------------------------------------------------------------
(***************************************************************************)
(* The login backoff.                                                      *)
(***************************************************************************)
LEMMA BackoffConstants ==
    /\ Free \in Nat \ {0} /\ BaseGap \in Nat \ {0} /\ CapGap \in Nat \ {0} /\ MaxWait \in Nat \ {0}
    /\ Quiet \in Nat \ {0} /\ LastTick \in Nat \ {0}
    /\ BaseGap <= CapGap /\ MaxWait < Quiet
  BY BackoffAssumption

\* The recursion has a solution: the gap doubles for ever.
LEMMA DoubledUnfolds ==
    /\ doubled \in [Nat -> Nat]
    /\ doubled[0] = BaseGap
<1> DEFINE step == [p \in Nat \X Nat |-> 2 * p[2]]
<1>1. step \in [Nat \X Nat -> Nat] /\ \A n, v \in Nat : step[<<n, v>>] = 2 * v
  OBVIOUS
<1> HIDE DEF step
<1>2. PICK f : Recursion(f, Nat, BaseGap, step)
  BY <1>1, BackoffConstants, RecursionExists
<1>3. f \in [Nat -> Nat] /\ f[0] = BaseGap /\ \A n \in Nat : f[n + 1] = step[<<n, f[n]>>]
  BY <1>2 DEF Recursion
<1>4. ASSUME NEW n \in Nat PROVE f[n] = IF n = 0 THEN BaseGap ELSE 2 * f[n - 1]
  <2>1. CASE n # 0
    <3>1. n - 1 \in Nat /\ (n - 1) + 1 = n
      BY <2>1
    <3>2. f[n] = step[<<n - 1, f[n - 1]>>]
      BY <1>3, <3>1
    <3>3. QED
      BY <1>1, <1>3, <2>1, <3>1, <3>2
  <2>2. QED
    BY <1>3, <2>1
<1>5. f = [k \in Nat |-> IF k = 0 THEN BaseGap ELSE 2 * f[k - 1]]
  BY <1>3, <1>4
<1>6. doubled = [k \in Nat |-> IF k = 0 THEN BaseGap ELSE 2 * doubled[k - 1]]
  BY <1>5 DEF doubled
<1>7. doubled[0] = BaseGap /\ \A n \in Nat : doubled[n + 1] = 2 * doubled[n]
  BY <1>6
<1> DEFINE good == {n \in Nat : doubled[n] \in Nat}
<1>8. Nat \subseteq good
  <2>1. 0 \in good
    BY <1>7, BackoffConstants
  <2>2. ASSUME NEW n \in Nat, n \in good PROVE n + 1 \in good
    BY <1>7, <2>2
  <2>3. QED
    <3> HIDE DEF good
    <3> QED BY <2>1, <2>2, InductiveSet
<1>9. doubled \in [Nat -> Nat]
  BY <1>6, <1>8
<1>10. QED
  BY <1>7, <1>9

LEMMA GapBounded ==
    ASSUME NEW k \in Nat
    PROVE  Gap(k) \in Nat /\ Gap(k) <= CapGap
  BY DoubledUnfolds, BackoffConstants DEF Gap

LEMMA BackoffInitInv == BackoffInit => BackoffInv
<1> SUFFICES ASSUME BackoffInit PROVE BackoffInv
  OBVIOUS
<1>1. BackoffTypeOK
  BY BackoffConstants DEF BackoffInit, BackoffTypeOK, Stage
<1>2. DoorBehindLastStart
  BY BackoffConstants DEF BackoffInit, DoorBehindLastStart
<1>3. GuessesDelayed
  BY BackoffConstants DEF BackoffInit, GuessesDelayed
<1>4. QED
  BY <1>1, <1>2, <1>3 DEF BackoffInv

\* After a quiet time, or as they are: the invariant of the attempts that
\* count at this moment.
Door(a, next, given) ==
    /\ a \in Nat /\ next \in Nat /\ given \in Seq(Nat) /\ a = Len(given)
    /\ a >= Free => next >= given[a] + IF a = Free THEN BaseGap ELSE Gap(a - Free - 1)
    /\ \A n \in Free + 1..a :
         given[n] - given[n - 1] >= IF n = Free + 1 THEN BaseGap ELSE Gap(n - Free - 2)
    /\ next - tick <= MaxWait + CapGap

LEMMA DoorNow ==
    ASSUME BackoffInv
    PROVE  Door(Attempts, NextAllowedAt, Starts)
<1> USE BackoffConstants DEF BackoffInv, BackoffTypeOK
<1>1. CASE Rested
  BY <1>1 DEF Attempts, NextAllowedAt, Starts, Door
<1>2. CASE ~Rested
  BY <1>2 DEF Attempts, NextAllowedAt, Starts, Door, DoorBehindLastStart, GuessesDelayed
<1>3. QED
  BY <1>1, <1>2

\* What a door that is right gives back.
LEMMA DoorInv ==
    ASSUME Door(attempts', nextAllowedAt', starts'), BackoffInv, UNCHANGED tick,
           lastAt' \in Nat, guesses' \in [Guess -> [stage : Stage, start : Nat]],
           \A g \in Guess : guesses'[g].stage = "asleep" => guesses'[g].start - tick <= MaxWait
    PROVE  BackoffInv'
  BY DEF BackoffInv, BackoffTypeOK, DoorBehindLastStart, GuessesDelayed, Door

\* A slot given one later than the others.
LEMMA DoorLater ==
    ASSUME NEW a, NEW next, NEW given, Door(a, next, given), tick \in Nat,
           NEW start \in Nat, a >= Free => start >= next,
           NEW nextLater \in Nat, nextLater - tick <= MaxWait + CapGap,
           a + 1 >= Free => nextLater >= start + IF a + 1 = Free THEN BaseGap ELSE Gap(a - Free)
    PROVE  Door(a + 1, nextLater, Append(given, start))
<1> USE BackoffConstants DEF Door
<1> DEFINE longer == Append(given, start)
<1>1. /\ longer \in Seq(Nat) /\ Len(longer) = a + 1
      /\ \A n \in 1..a : longer[n] = given[n]
      /\ longer[a + 1] = start
  BY AppendProperties
<1> HIDE DEF longer
<1>2. a + 1 >= Free => nextLater >= longer[a + 1] + IF a + 1 = Free THEN BaseGap ELSE Gap((a + 1) - Free - 1)
  <2>1. (a + 1) - Free - 1 = a - Free
    OBVIOUS
  <2>2. QED
    BY <1>1, <2>1
<1>3. ASSUME NEW n \in Free + 1..a + 1
      PROVE  longer[n] - longer[n - 1] >= IF n = Free + 1 THEN BaseGap ELSE Gap(n - Free - 2)
  <2>1. CASE n = a + 1
    <3>1. n - 1 = a /\ a \in 1..a /\ a >= Free
      BY <2>1
    <3>2. longer[n] = start /\ longer[n - 1] = given[a] /\ given[a] \in Nat
      BY <1>1, <2>1, <3>1
    <3>3. CASE a = Free
      BY <3>1, <3>2, <3>3, <2>1
    <3>4. CASE a # Free
      <4>1. a - Free - 1 = n - Free - 2 /\ n - Free - 2 \in Nat
        BY <2>1, <3>1, <3>4
      <4>2. next >= given[a] + Gap(n - Free - 2)
        BY <3>1, <3>4, <4>1
      <4>3. Gap(n - Free - 2) \in Nat
        BY <4>1, GapBounded
      <4>4. QED
        <5>1. start >= next /\ n # Free + 1
          BY <2>1, <3>1, <3>4
        <5>2. start - given[a] >= Gap(n - Free - 2)
          BY <3>2, <4>2, <4>3, <5>1
        <5>3. QED
          BY <3>2, <5>1, <5>2
    <3>5. QED
      BY <3>3, <3>4
  <2>2. CASE n # a + 1
    <3>1. n \in Int /\ Free \in Int /\ Free >= 1 /\ n >= Free + 1 /\ n <= a + 1 /\ a \in Nat
      OBVIOUS
    <3>2. n \in Free + 1..a /\ n \in 1..a /\ n - 1 \in 1..a
      <4> HIDE DEF Door
      <4>1. n <= a /\ n - 1 >= 1 /\ n - 1 <= a /\ n >= 1
        BY <2>2, <3>1
      <4>2. QED
        BY <3>1, <4>1
    <3>3. longer[n] = given[n] /\ longer[n - 1] = given[n - 1]
      BY <1>1, <3>2
    <3>4. QED
      BY <3>2, <3>3
  <2>3. QED
    BY <2>1, <2>2
<1>4. Door(a + 1, nextLater, longer)
  BY <1>1, <1>2, <1>3
<1>5. QED
  BY <1>4 DEF longer

LEMMA SlotTaken ==
    ASSUME BackoffInv, NEW g \in Guess, NEW stage \in Stage, NEW start \in Nat, Slot(g, stage, start),
           stage = "asleep" => start - tick <= MaxWait
    PROVE  /\ guesses' \in [Guess -> [stage : Stage, start : Nat]]
           /\ \A h \in Guess : guesses'[h].stage = "asleep" => guesses'[h].start - tick <= MaxWait
  BY DEF BackoffInv, BackoffTypeOK, GuessesDelayed, Slot

LEMMA ReserveFreeInv ==
    ASSUME BackoffInv, NEW g \in Guess, ReserveFree(g), lastAt' = tick, UNCHANGED tick
    PROVE  BackoffInv'
<1> USE BackoffConstants
<1>1. Door(Attempts, NextAllowedAt, Starts) /\ tick \in Nat
  BY DoorNow DEF BackoffInv, BackoffTypeOK
<1>2. Attempts \in Nat /\ NextAllowedAt \in Nat /\ NextAllowedAt - tick <= MaxWait + CapGap
  BY <1>1 DEF Door
<1>3. attempts' = Attempts + 1 /\ starts' = Append(Starts, tick) /\ Attempts < Free
      /\ nextAllowedAt' = IF attempts' = Free THEN tick + BaseGap ELSE NextAllowedAt
  BY DEF ReserveFree
<1>4. nextAllowedAt' \in Nat /\ nextAllowedAt' - tick <= MaxWait + CapGap
      /\ (Attempts + 1 = Free => nextAllowedAt' = tick + BaseGap)
  BY <1>1, <1>2, <1>3
<1>5. Door(Attempts + 1, nextAllowedAt', Append(Starts, tick))
  BY <1>1, <1>2, <1>3, <1>4, DoorLater
<1>6. /\ guesses' \in [Guess -> [stage : Stage, start : Nat]]
      /\ \A h \in Guess : guesses'[h].stage = "asleep" => guesses'[h].start - tick <= MaxWait
  BY SlotTaken DEF ReserveFree, Stage
<1>7. QED
  BY <1>1, <1>3, <1>5, <1>6, DoorInv

LEMMA ReserveRefusedInv ==
    ASSUME BackoffInv, NEW g \in Guess, ReserveRefused(g), lastAt' = tick, UNCHANGED tick
    PROVE  BackoffInv'
<1>1. Door(attempts', nextAllowedAt', starts') /\ tick \in Nat
  BY DoorNow DEF ReserveRefused, BackoffInv, BackoffTypeOK
<1>2. /\ guesses' \in [Guess -> [stage : Stage, start : Nat]]
      /\ \A h \in Guess : guesses'[h].stage = "asleep" => guesses'[h].start - tick <= MaxWait
  BY SlotTaken DEF ReserveRefused, Stage
<1>3. QED
  BY <1>1, <1>2, DoorInv

LEMMA ReserveLaterInv ==
    ASSUME BackoffInv, NEW g \in Guess, ReserveLater(g), lastAt' = tick, UNCHANGED tick
    PROVE  BackoffInv'
<1> USE BackoffConstants
<1>1. Door(Attempts, NextAllowedAt, Starts) /\ tick \in Nat
  BY DoorNow DEF BackoffInv, BackoffTypeOK
<1>2. Attempts \in Nat /\ NextAllowedAt \in Nat /\ NextAllowedAt - tick <= MaxWait + CapGap
  BY <1>1 DEF Door
<1>3. /\ attempts' = Attempts + 1 /\ starts' = Append(Starts, Opens) /\ Attempts >= Free
      /\ Opens - tick <= MaxWait /\ nextAllowedAt' = Opens + Gap(Attempts - Free)
      /\ IF Opens = tick THEN Slot(g, "comparing", 0) ELSE Slot(g, "asleep", Opens)
  BY DEF ReserveLater
<1>4. Opens \in Nat /\ Opens >= NextAllowedAt /\ Opens >= tick
  BY <1>1, <1>2 DEF Opens
<1>5. Gap(Attempts - Free) \in Nat /\ Gap(Attempts - Free) <= CapGap
  BY <1>2, <1>3, GapBounded
<1>6. nextAllowedAt' \in Nat /\ nextAllowedAt' - tick <= MaxWait + CapGap
  BY <1>1, <1>3, <1>4, <1>5
<1>7. Door(Attempts + 1, nextAllowedAt', Append(Starts, Opens))
  <2>1. nextAllowedAt' >= Opens + IF Attempts + 1 = Free THEN BaseGap ELSE Gap(Attempts - Free)
    BY <1>2, <1>3, <1>4, <1>5
  <2>2. QED
    BY <1>1, <1>2, <1>4, <1>6, <2>1, DoorLater
<1>8. /\ guesses' \in [Guess -> [stage : Stage, start : Nat]]
      /\ \A h \in Guess : guesses'[h].stage = "asleep" => guesses'[h].start - tick <= MaxWait
  <2>1. CASE Slot(g, "comparing", 0)
    BY <2>1, SlotTaken DEF Stage
  <2>2. CASE Slot(g, "asleep", Opens)
    BY <1>3, <1>4, <2>2, SlotTaken DEF Stage
  <2>3. QED
    BY <1>3, <2>1, <2>2
<1>9. QED
  BY <1>1, <1>3, <1>7, <1>8, DoorInv

LEMMA BackoffNextInv == BackoffInv /\ [BackoffNext]_backoffVars => BackoffInv'
<1> SUFFICES ASSUME BackoffInv, [BackoffNext]_backoffVars PROVE BackoffInv'
  OBVIOUS
<1> USE BackoffConstants
<1>1. ASSUME NEW g \in Guess, reserve(g) PROVE BackoffInv'
  BY <1>1, ReserveFreeInv, ReserveRefusedInv, ReserveLaterInv DEF reserve
<1>2. ASSUME NEW g \in Guess, Wakes(g) \/ ComparedWrong(g) PROVE BackoffInv'
  <2>1. \E stage \in Stage \ {"asleep"} : Slot(g, stage, 0)
    BY <1>2 DEF Wakes, ComparedWrong, Stage
  <2>2. UNCHANGED <<attempts, nextAllowedAt, lastAt, starts, tick>>
    BY <1>2 DEF Wakes, ComparedWrong
  <2>3. /\ guesses' \in [Guess -> [stage : Stage, start : Nat]]
        /\ \A h \in Guess : guesses'[h].stage = "asleep" => guesses'[h].start - tick <= MaxWait
    BY <2>1, SlotTaken
  <2>4. QED
    BY <2>2, <2>3 DEF BackoffInv, BackoffTypeOK, DoorBehindLastStart, GuessesDelayed
<1>3. ASSUME NEW g \in Guess, ComparedRight(g) PROVE BackoffInv'
  <2>1. /\ guesses' \in [Guess -> [stage : Stage, start : Nat]]
        /\ \A h \in Guess : guesses'[h].stage = "asleep" => guesses'[h].start - tick <= MaxWait
    BY <1>3, SlotTaken DEF ComparedRight, Stage
  <2>2. Door(attempts', nextAllowedAt', starts')
    BY <1>3 DEF ComparedRight, Door, BackoffInv, BackoffTypeOK
  <2>3. QED
    BY <1>3, <2>1, <2>2, DoorInv DEF ComparedRight, BackoffInv, BackoffTypeOK
<1>4. CASE TickPasses
  <2>1. /\ tick' = tick + 1 /\ tick \in Nat /\ tick' \in 0..LastTick
        /\ UNCHANGED <<attempts, nextAllowedAt, lastAt, guesses, starts>>
    BY <1>4 DEF TickPasses, BackoffInv, BackoffTypeOK
  <2>2. BackoffTypeOK' /\ DoorBehindLastStart'
    BY <2>1 DEF BackoffInv, BackoffTypeOK, DoorBehindLastStart
  <2>3. GuessesDelayed'
    <3>1. \A g \in Guess : guesses[g].start \in Nat
      BY DEF BackoffInv, BackoffTypeOK
    <3>2. \A g \in Guess : guesses'[g].stage = "asleep" => guesses'[g].start - tick' <= MaxWait
      BY <2>1, <3>1 DEF BackoffInv, GuessesDelayed
    <3>3. nextAllowedAt' - tick' <= MaxWait + CapGap
      BY <2>1 DEF BackoffInv, BackoffTypeOK, GuessesDelayed
    <3>4. \A n \in Free + 1..Len(starts') :
            starts'[n] - starts'[n - 1] >= IF n = Free + 1 THEN BaseGap ELSE Gap(n - Free - 2)
      BY <2>1 DEF BackoffInv, GuessesDelayed
    <3>5. QED
      BY <3>2, <3>3, <3>4 DEF GuessesDelayed
  <2>4. QED
    BY <2>2, <2>3 DEF BackoffInv
<1>5. CASE UNCHANGED backoffVars
  BY <1>5 DEF backoffVars, BackoffInv, BackoffTypeOK, DoorBehindLastStart, GuessesDelayed
<1>6. QED
  BY <1>1, <1>2, <1>3, <1>4, <1>5 DEF BackoffNext

LEMMA BackoffInvariant == BackoffSpec => []BackoffInv
<1>1. QED
  BY BackoffInitInv, BackoffNextInv, PTL DEF BackoffSpec

\* However many guess at once, and for every setting of the delays: the n-th
\* comparison starts a whole gap after the one before, nobody sleeps longer
\* than MaxWait and the door never closes for longer than MaxWait and a gap.
THEOREM GuessesAlwaysDelayed == BackoffSpec => []GuessesDelayed
<1>1. BackoffInv => GuessesDelayed
  BY DEF BackoffInv
<1>2. QED
  BY <1>1, BackoffInvariant, PTL

------------------------------------------------------------------------------
(***************************************************************************)
(* The hit counter.                                                        *)
(***************************************************************************)
LEMMA HitConstants ==
    /\ MaxRequests \in Nat \ {0} /\ Window \in Nat \ {0}
    /\ MaxBuckets \in Nat \ {0} /\ LastMoment \in Nat \ {0}
  BY HitAssumption

\* One element of a sequence goes, the others stay.
LEMMA RemovedOne ==
    ASSUME NEW T, NEW s \in Seq(T), NEW i \in 1..Len(s)
    PROVE  /\ RemoveAt(s, i) \in Seq(T) /\ Len(RemoveAt(s, i)) = Len(s) - 1
           /\ \A j \in 1..Len(s) : j # i => \E k \in 1..Len(RemoveAt(s, i)) : RemoveAt(s, i)[k] = s[j]
<1> DEFINE low == SubSeq(s, 1, i - 1)
           high == SubSeq(s, i + 1, Len(s))
<1>1. Len(s) \in Nat /\ i \in Nat /\ i >= 1 /\ i <= Len(s)
  OBVIOUS
<1>2. /\ low \in Seq(T) /\ Len(low) = i - 1
      /\ \A j \in 1..i - 1 : low[j] = s[j]
  <2>1. \A j \in 1..i - 1 : s[j] \in T
    BY <1>1
  <2>2. 1 \in Int /\ i - 1 \in Int
    BY <1>1
  <2>3. /\ low \in Seq(T) /\ Len(low) = IF 1 <= i - 1 THEN (i - 1) - 1 + 1 ELSE 0
        /\ \A j \in 1..(i - 1) - 1 + 1 : low[j] = s[1 + j - 1]
    BY <2>1, <2>2, SubSeqProperties
  <2> HIDE DEF low
  <2>4. QED
    BY <1>1, <2>3
<1>3. /\ high \in Seq(T) /\ Len(high) = Len(s) - i
      /\ \A j \in 1..Len(s) - i : high[j] = s[i + j]
  <2>1. \A j \in i + 1..Len(s) : s[j] \in T
    BY <1>1
  <2>2. i + 1 \in Int /\ Len(s) \in Int
    BY <1>1
  <2>3. /\ high \in Seq(T) /\ Len(high) = IF i + 1 <= Len(s) THEN Len(s) - (i + 1) + 1 ELSE 0
        /\ \A j \in 1..Len(s) - (i + 1) + 1 : high[j] = s[(i + 1) + j - 1]
    BY <2>1, <2>2, SubSeqProperties
  <2> HIDE DEF high
  <2>4. QED
    BY <1>1, <2>3
<1>4. RemoveAt(s, i) = low \o high
  BY DEF RemoveAt
<1> HIDE DEF low, high
<1>5. /\ low \o high \in Seq(T) /\ Len(low \o high) = Len(s) - 1
      /\ \A k \in 1..Len(s) - 1 : (low \o high)[k] = IF k <= i - 1 THEN low[k] ELSE high[k - (i - 1)]
  <2>1. /\ low \o high \in Seq(T) /\ Len(low \o high) = Len(low) + Len(high)
        /\ \A k \in 1..Len(low) + Len(high) :
             (low \o high)[k] = IF k <= Len(low) THEN low[k] ELSE high[k - Len(low)]
    BY <1>2, <1>3, ConcatProperties
  <2>2. Len(low) + Len(high) = Len(s) - 1
    BY <1>1, <1>2, <1>3
  <2>3. QED
    BY <1>2, <2>1, <2>2
<1>6. ASSUME NEW j \in 1..Len(s), j # i
      PROVE  \E k \in 1..Len(s) - 1 : (low \o high)[k] = s[j]
  <2>1. CASE j < i
    <3>1. j \in 1..Len(s) - 1 /\ j \in 1..i - 1 /\ j <= i - 1
      BY <1>1, <2>1
    <3>2. QED
      BY <1>2, <1>5, <3>1
  <2>2. CASE j > i
    <3>1. j - 1 \in 1..Len(s) - 1 /\ ~(j - 1 <= i - 1) /\ j - i \in 1..Len(s) - i
          /\ (j - 1) - (i - 1) = j - i /\ i + (j - i) = j
      BY <1>1, <2>2
    <3>2. (low \o high)[j - 1] = high[j - i]
      BY <1>5, <3>1
    <3>3. QED
      BY <1>3, <3>1, <3>2
  <2>3. j < i \/ j > i
    <3>1. j \in Int /\ i \in Int /\ j # i
      BY <1>1, <1>6
    <3>2. QED
      BY <3>1
  <2>4. QED
    BY <2>1, <2>2, <2>3
<1>7. QED
  BY <1>4, <1>5, <1>6

\* The bucket that is dropped is not locked, or all are and no other is free
\* sooner.
LEMMA Evicted ==
    ASSUME HitTypeOK, Len(buckets) >= 1
    PROVE  \E i \in 1..Len(buckets) :
             /\ evictOne(buckets) = RemoveAt(buckets, i)
             /\ \/ ~Locked(buckets[i])
                \/ \A j \in 1..Len(buckets) : Locked(buckets[j]) /\ buckets[i].resetAt <= buckets[j].resetAt
<1> DEFINE open == {i \in DOMAIN buckets : ~Locked(buckets[i])}
           soonest == {i \in DOMAIN buckets : \A j \in DOMAIN buckets : buckets[i].resetAt <= buckets[j].resetAt}
           among == IF open # {} THEN open ELSE soonest
           first == CHOOSE i \in among : \A j \in among : i <= j
<1>1. DOMAIN buckets = 1..Len(buckets) /\ Len(buckets) \in Nat
      /\ \A i \in DOMAIN buckets : buckets[i].resetAt \in Nat
  <2>1. DOMAIN buckets = 1..Len(buckets) /\ Len(buckets) \in Nat
        /\ \A i \in DOMAIN buckets : buckets[i] \in Bucket
    BY DEF HitTypeOK
  <2>2. \A b \in Bucket : b.resetAt \in Nat
    BY DEF Bucket
  <2>3. QED
    BY <2>1, <2>2
<1>2. soonest # {}
  <2> DEFINE ends == {buckets[i].resetAt : i \in DOMAIN buckets}
  <2>1. ends \in SUBSET Nat /\ ends # {}
    BY <1>1
  <2>2. PICK x \in ends : \A y \in ends : x <= y
    <3> HIDE DEF ends
    <3> QED BY <2>1, LeastNat
  <2>3. QED
    BY <2>2
<1>3. among \in SUBSET Nat /\ among # {} /\ among \subseteq DOMAIN buckets
  BY <1>1, <1>2
<1>4. first \in among
  <2> HIDE DEF among
  <2>1. \E i \in among : \A j \in among : i <= j
    BY <1>3, LeastNat
  <2>2. QED
    BY <2>1
<1>5. evictOne(buckets) = RemoveAt(buckets, first)
  BY DEF evictOne
<1>6. \/ ~Locked(buckets[first])
      \/ \A j \in 1..Len(buckets) : Locked(buckets[j]) /\ buckets[first].resetAt <= buckets[j].resetAt
  <2> HIDE DEF first
  <2>1. CASE open # {}
    BY <1>4, <2>1
  <2>2. CASE open = {}
    BY <1>1, <1>4, <2>2
  <2>3. QED
    BY <2>1, <2>2
<1>7. QED
  <2> HIDE DEF first, among
  <2>1. QED
    BY <1>1, <1>3, <1>4, <1>5, <1>6

\* The table as a hit leaves it.
LEMMA HitTable ==
    ASSUME HitTypeOK, NEW key \in {keyForAddress(a) : a \in Address}, hit(key)
    PROVE  /\ buckets' \in Seq(Bucket) /\ Len(buckets') <= MaxBuckets
           /\ \A j \in 1..Len(buckets) : buckets[j].resetAt > moment =>
                \/ \E k \in 1..Len(buckets') : /\ buckets'[k].key = buckets[j].key
                                               /\ buckets'[k].count >= buckets[j].count
                                               /\ buckets'[k].resetAt = buckets[j].resetAt
                \/ ~Locked(buckets[j])
                \/ /\ Len(buckets) = MaxBuckets
                   /\ \A i \in 1..Len(buckets) : Locked(buckets[i]) /\ buckets[j].resetAt <= buckets[i].resetAt
<1> USE HitConstants
<1> DEFINE fresh == [key |-> key, count |-> 1, resetAt |-> moment + Window]
           at == {i \in DOMAIN buckets : buckets[i].key = key}
<1>1. /\ buckets \in Seq(Bucket) /\ Len(buckets) \in Nat /\ Len(buckets) <= MaxBuckets
      /\ DOMAIN buckets = 1..Len(buckets) /\ moment \in Nat
      /\ \A i \in 1..Len(buckets) : buckets[i] \in Bucket
  BY DEF HitTypeOK
<1>2. fresh \in Bucket
  BY <1>1 DEF Bucket
<1>3. CASE at = {}
  <2> DEFINE rest == IF Len(buckets) >= MaxBuckets THEN evictOne(buckets) ELSE buckets
  <2>1. buckets' = Append(rest, fresh)
    BY <1>3 DEF hit
  <2>2. /\ rest \in Seq(Bucket) /\ Len(rest) < MaxBuckets
        /\ \A j \in 1..Len(buckets) : buckets[j].resetAt > moment =>
             \/ \E k \in 1..Len(rest) : rest[k] = buckets[j]
             \/ ~Locked(buckets[j])
             \/ /\ Len(buckets) = MaxBuckets
                /\ \A i \in 1..Len(buckets) : Locked(buckets[i]) /\ buckets[j].resetAt <= buckets[i].resetAt
    <3>1. CASE Len(buckets) >= MaxBuckets
      <4>1. PICK i \in 1..Len(buckets) :
               /\ evictOne(buckets) = RemoveAt(buckets, i)
               /\ \/ ~Locked(buckets[i])
                  \/ \A j \in 1..Len(buckets) : Locked(buckets[j]) /\ buckets[i].resetAt <= buckets[j].resetAt
        BY <1>1, <3>1, Evicted
      <4>2. /\ RemoveAt(buckets, i) \in Seq(Bucket) /\ Len(RemoveAt(buckets, i)) = Len(buckets) - 1
            /\ \A j \in 1..Len(buckets) : j # i => \E k \in 1..Len(RemoveAt(buckets, i)) : RemoveAt(buckets, i)[k] = buckets[j]
        BY <1>1, RemovedOne
      <4>3. rest = RemoveAt(buckets, i) /\ Len(buckets) = MaxBuckets
        BY <1>1, <3>1, <4>1
      <4> HIDE DEF rest
      <4>4. QED
        BY <1>1, <4>1, <4>2, <4>3
    <3>2. CASE ~(Len(buckets) >= MaxBuckets)
      <4>1. rest = buckets
        BY <3>2
      <4> HIDE DEF rest
      <4>2. \A j \in 1..Len(buckets) : j \in 1..Len(rest) /\ rest[j] = buckets[j]
        BY <4>1
      <4>3. rest \in Seq(Bucket) /\ Len(rest) < MaxBuckets
        BY <1>1, <3>2, <4>1
      <4>4. QED
        BY <4>2, <4>3
    <3>3. QED
      BY <3>1, <3>2
  <2> HIDE DEF rest, fresh
  <2>3. /\ buckets' \in Seq(Bucket) /\ Len(buckets') = Len(rest) + 1
        /\ \A k \in 1..Len(rest) : buckets'[k] = rest[k]
    BY <1>2, <2>1, <2>2, AppendProperties
  <2>4. 1..Len(rest) \subseteq 1..Len(buckets') /\ Len(buckets') <= MaxBuckets
    BY <2>2, <2>3
  <2>5. \A j \in 1..Len(buckets) : buckets[j].count \in Nat
    BY <1>1 DEF Bucket
  <2>6. \A j \in 1..Len(buckets) : \A k \in 1..Len(rest) : rest[k] = buckets[j] =>
           /\ k \in 1..Len(buckets')
           /\ buckets'[k].key = buckets[j].key
           /\ buckets'[k].count >= buckets[j].count
           /\ buckets'[k].resetAt = buckets[j].resetAt
    BY <2>3, <2>4, <2>5
  <2>7. QED
    BY <2>2, <2>3, <2>4, <2>6
<1>4. CASE at # {}
  <2>1. buckets' = [i \in DOMAIN buckets |->
                      IF i \notin at THEN buckets[i]
                      ELSE IF buckets[i].resetAt <= moment THEN fresh
                      ELSE [buckets[i] EXCEPT !.count = @ + 1]]
    BY <1>4 DEF hit
  <2>2. \A i \in 1..Len(buckets) :
           /\ [buckets[i] EXCEPT !.count = @ + 1] \in Bucket
           /\ [buckets[i] EXCEPT !.count = @ + 1].key = buckets[i].key
           /\ [buckets[i] EXCEPT !.count = @ + 1].count = buckets[i].count + 1
           /\ [buckets[i] EXCEPT !.count = @ + 1].resetAt = buckets[i].resetAt
           /\ buckets[i].count \in Nat /\ buckets[i].resetAt \in Nat
    <3>1. ASSUME NEW b \in Bucket
          PROVE  /\ [b EXCEPT !.count = @ + 1] \in Bucket
                 /\ [b EXCEPT !.count = @ + 1].key = b.key
                 /\ [b EXCEPT !.count = @ + 1].count = b.count + 1
                 /\ [b EXCEPT !.count = @ + 1].resetAt = b.resetAt
                 /\ b.count \in Nat /\ b.resetAt \in Nat
      BY DEF Bucket
    <3>2. QED
      BY <1>1, <3>1
  <2> HIDE DEF fresh, at
  <2>3. buckets' \in [1..Len(buckets) -> Bucket]
    BY <1>1, <1>2, <2>1, <2>2
  <2>4. buckets' \in Seq(Bucket) /\ Len(buckets') = Len(buckets)
    BY <1>1, <2>3
  <2>5. ASSUME NEW j \in 1..Len(buckets), buckets[j].resetAt > moment
        PROVE  /\ buckets'[j].key = buckets[j].key
               /\ buckets'[j].count >= buckets[j].count
               /\ buckets'[j].resetAt = buckets[j].resetAt
    <3> DEFINE ends == buckets[j].resetAt
    <3>0. ends \in Nat /\ buckets[j].count \in Nat /\ ends > moment
      BY <2>2, <2>5
    <3>1. j \in DOMAIN buckets /\ ~(ends <= moment)
      <4> HIDE DEF ends
      <4> QED BY <1>1, <3>0
    <3>2. buckets'[j] = IF j \notin at THEN buckets[j] ELSE [buckets[j] EXCEPT !.count = @ + 1]
      BY <2>1, <3>1
    <3>3. CASE j \notin at
      BY <3>0, <3>2, <3>3
    <3>4. CASE j \in at
      BY <2>2, <3>2, <3>4
    <3>5. QED
      BY <3>3, <3>4
  <2>6. QED
    BY <1>1, <2>4, <2>5
<1>5. QED
  BY <1>3, <1>4

\* The sweep keeps, in their order, the buckets whose window has not passed.
LEMMA KeptOnes ==
    ASSUME HitTypeOK
    PROVE  /\ kept[Len(buckets)] \in Seq(Bucket) /\ Len(kept[Len(buckets)]) <= Len(buckets)
           /\ \A j \in 1..Len(buckets) : buckets[j].resetAt > moment =>
                \E k \in 1..Len(kept[Len(buckets)]) : kept[Len(buckets)][k] = buckets[j]
<1> DEFINE stays(n) == n \in 1..Len(buckets) /\ buckets[n].resetAt > moment
           step == [p \in Nat \X Seq(Bucket) |->
                      IF stays(p[1] + 1) THEN Append(p[2], buckets[p[1] + 1]) ELSE p[2]]
<1>1. /\ Len(buckets) \in Nat
      /\ \A i \in 1..Len(buckets) : buckets[i] \in Bucket
  BY DEF HitTypeOK
<1>2. /\ step \in [Nat \X Seq(Bucket) -> Seq(Bucket)]
      /\ \A n \in Nat, t \in Seq(Bucket) :
           step[<<n, t>>] = IF stays(n + 1) THEN Append(t, buckets[n + 1]) ELSE t
  BY <1>1
<1> HIDE DEF step
<1>3. <<>> \in Seq(Bucket)
  OBVIOUS
<1>4. PICK f : Recursion(f, Seq(Bucket), <<>>, step)
  BY <1>2, <1>3, RecursionExists
<1>5. f \in [Nat -> Seq(Bucket)] /\ f[0] = <<>> /\ \A n \in Nat : f[n + 1] = step[<<n, f[n]>>]
  BY <1>4 DEF Recursion
<1> DEFINE upTo == [i \in 0..Len(buckets) |-> f[i]]
<1>6. upTo = [i \in 0..Len(buckets) |->
                IF i = 0 THEN <<>>
                ELSE IF buckets[i].resetAt > moment THEN Append(upTo[i - 1], buckets[i])
                ELSE upTo[i - 1]]
  <2>1. ASSUME NEW i \in 0..Len(buckets), i # 0
        PROVE  f[i] = IF buckets[i].resetAt > moment THEN Append(upTo[i - 1], buckets[i]) ELSE upTo[i - 1]
    <3>1. /\ i - 1 \in Nat /\ (i - 1) + 1 = i /\ i \in 1..Len(buckets)
          /\ i - 1 \in 0..Len(buckets)
      BY <1>1, <2>1
    <3>2. f[i] = step[<<i - 1, f[i - 1]>>] /\ f[i - 1] \in Seq(Bucket) /\ upTo[i - 1] = f[i - 1]
      BY <1>5, <3>1
    <3>3. QED
      BY <1>2, <3>1, <3>2
  <2>2. \A i \in 0..Len(buckets) :
          f[i] = IF i = 0 THEN <<>>
                 ELSE IF buckets[i].resetAt > moment THEN Append(upTo[i - 1], buckets[i])
                 ELSE upTo[i - 1]
    BY <1>5, <2>1
  <2>3. QED
    BY <2>2
<1>7. kept = [i \in 0..Len(buckets) |->
                IF i = 0 THEN <<>>
                ELSE IF buckets[i].resetAt > moment THEN Append(kept[i - 1], buckets[i])
                ELSE kept[i - 1]]
  <2> HIDE DEF upTo
  <2> QED BY <1>6 DEF kept
<1>8. /\ kept[0] = <<>>
      /\ \A n \in Nat : n + 1 <= Len(buckets) =>
           kept[n + 1] = IF buckets[n + 1].resetAt > moment THEN Append(kept[n], buckets[n + 1]) ELSE kept[n]
  <2>1. 0 \in 0..Len(buckets)
    BY <1>1
  <2>2. kept[0] = <<>>
    BY <1>7, <2>1
  <2>3. ASSUME NEW n \in Nat, n + 1 <= Len(buckets)
        PROVE  n + 1 \in 0..Len(buckets) /\ n + 1 # 0 /\ (n + 1) - 1 = n
    BY <1>1, <2>3
  <2>4. QED
    BY <1>7, <2>2, <2>3
<1> HIDE DEF stays
<1> DEFINE Holds(n) == /\ kept[n] \in Seq(Bucket) /\ Len(kept[n]) <= n
                       /\ \A j \in 1..n : buckets[j].resetAt > moment =>
                            \E k \in 1..Len(kept[n]) : kept[n][k] = buckets[j]
           good == {n \in Nat : n <= Len(buckets) => Holds(n)}
<1>9. Nat \subseteq good
  <2>1. 0 \in good
    <3>1. kept[0] = <<>>
      BY <1>8
    <3>2. Holds(0)
      BY <1>3, <3>1
    <3>3. QED
      BY <3>2
  <2>2. ASSUME NEW n \in Nat, n \in good PROVE n + 1 \in good
    <3>1. SUFFICES ASSUME n + 1 <= Len(buckets) PROVE Holds(n + 1)
      OBVIOUS
    <3>2. Holds(n) /\ n + 1 \in 1..Len(buckets)
      BY <1>1, <2>2, <3>1
    <3>3. CASE buckets[n + 1].resetAt > moment
      <4>1. kept[n + 1] = Append(kept[n], buckets[n + 1]) /\ buckets[n + 1] \in Bucket
        BY <1>1, <1>8, <3>1, <3>2, <3>3
      <4>2. /\ kept[n + 1] \in Seq(Bucket) /\ Len(kept[n + 1]) = Len(kept[n]) + 1
            /\ \A k \in 1..Len(kept[n]) : k \in 1..Len(kept[n + 1]) /\ kept[n + 1][k] = kept[n][k]
            /\ Len(kept[n]) + 1 \in 1..Len(kept[n + 1]) /\ kept[n + 1][Len(kept[n]) + 1] = buckets[n + 1]
        BY <3>2, <4>1, AppendProperties
      <4>3. ASSUME NEW j \in 1..n + 1, buckets[j].resetAt > moment
            PROVE  \E k \in 1..Len(kept[n + 1]) : kept[n + 1][k] = buckets[j]
        <5>1. CASE j = n + 1
          BY <4>2, <5>1
        <5>2. CASE j \in 1..n
          BY <3>2, <4>2, <4>3, <5>2
        <5>3. QED
          BY <5>1, <5>2
      <4>4. QED
        BY <3>2, <4>2, <4>3
    <3>4. CASE ~(buckets[n + 1].resetAt > moment)
      <4>1. kept[n + 1] = kept[n]
        BY <1>8, <3>1, <3>4
      <4>2. \A j \in 1..n + 1 : buckets[j].resetAt > moment => j \in 1..n
        BY <3>4
      <4>3. QED
        BY <3>2, <4>1, <4>2
    <3>5. QED
      BY <3>3, <3>4
  <2>3. QED
    <3> HIDE DEF good
    <3> QED BY <2>1, <2>2, InductiveSet
<1>10. QED
  BY <1>1, <1>9

\* One step of the counter: the type, and a lock that outlives the step is
\* still there after it unless the table was full of locks.
HitLock ==
    \A j \in 1..Len(buckets) : buckets[j].resetAt > moment /\ Locked(buckets[j]) =>
      \/ \E k \in 1..Len(buckets') : /\ buckets'[k].key = buckets[j].key
                                     /\ buckets'[k].count >= buckets[j].count
                                     /\ buckets'[k].resetAt = buckets[j].resetAt
      \/ /\ Len(buckets) = MaxBuckets
         /\ \A i \in 1..Len(buckets) : Locked(buckets[i]) /\ buckets[j].resetAt <= buckets[i].resetAt

LEMMA HitStep ==
    ASSUME HitTypeOK, [HitNext]_hitVars
    PROVE  HitTypeOK' /\ HitLock
<1>1. ASSUME NEW a \in Address, Request(a) PROVE HitTypeOK' /\ HitLock
  <2> DEFINE key == keyForAddress(a)
  <2>1. key \in {keyForAddress(x) : x \in Address} /\ hit(key) /\ moment' = moment
    BY <1>1 DEF Request
  <2> HIDE DEF key
  <2>2. QED
    BY <2>1, HitTable DEF HitTypeOK, HitLock
<1>2. CASE Sweep
  <2>1. buckets' = kept[Len(buckets)] /\ moment' = moment
    BY <1>2 DEF Sweep
  <2>2. \A j \in 1..Len(buckets) : buckets[j].count \in Nat
    <3>1. \A b \in Bucket : b.count \in Nat
      BY DEF Bucket
    <3>2. QED
      BY <3>1 DEF HitTypeOK
  <2>3. buckets' \in Seq(Bucket) /\ Len(buckets') <= MaxBuckets
    BY <2>1, KeptOnes, HitConstants DEF HitTypeOK
  <2>4. HitLock
    <3>1. \A j \in 1..Len(buckets) : buckets[j].resetAt > moment => \E k \in 1..Len(buckets') : buckets'[k] = buckets[j]
      BY <2>1, KeptOnes, Zenon
    <3>2. \A j \in 1..Len(buckets) : buckets[j].count >= buckets[j].count
      BY <2>2
    <3>3. QED
      BY <3>1, <3>2, Zenon DEF HitLock
  <2>5. QED
    BY <2>1, <2>3, <2>4 DEF HitTypeOK
<1>3. CASE buckets' = buckets /\ (MomentPasses \/ UNCHANGED hitVars)
  <2>1. \A j \in 1..Len(buckets) : buckets[j].count \in Nat
    <3>1. \A b \in Bucket : b.count \in Nat
      BY DEF Bucket
    <3>2. QED
      BY <3>1 DEF HitTypeOK
  <2>2. HitLock
    BY <1>3, <2>1 DEF HitLock
  <2>3. moment' \in 0..LastMoment
    BY <1>3, HitConstants DEF MomentPasses, hitVars, HitTypeOK
  <2>4. QED
    BY <1>3, <2>2, <2>3 DEF HitTypeOK
<1>4. QED
  BY <1>1, <1>2, <1>3 DEF HitNext, MomentPasses, hitVars

LEMMA HitInvariant == HitSpec => []HitTypeOK
<1>1. HitInit => HitTypeOK
  BY HitConstants DEF HitInit, HitTypeOK
<1>2. HitTypeOK /\ [HitNext]_hitVars => HitTypeOK'
  BY HitStep
<1>3. QED
  BY <1>1, <1>2, PTL DEF HitSpec

\* The addresses of one client share a key.
LEMMA OneKey ==
    ASSUME NEW a \in Address, NEW b \in Address, SameClient(a, b)
    PROVE  keyForAddress(a) = keyForAddress(b)
  BY DEF SameClient, keyForAddress

\* For every set of addresses, every limit and every size of the table: a
\* client over its limit is forgotten before its window has passed only when
\* the table is full of locks and its own ends first, from whatever address of
\* its own it calls.
THEOREM LocksAreKept == HitSpec => LockoutKept
<1> DEFINE Kept == \A b \in Range(buckets) : \A a, again \in Address :
         /\ Locked(b) /\ b.key = keyForAddress(a) /\ SameClient(a, again)
         /\ moment' < b.resetAt
         => \/ \E c \in BucketOf(again, buckets') : c.count >= b.count /\ c.resetAt = b.resetAt
            \/ /\ Len(buckets) = MaxBuckets
               /\ \A c \in Range(buckets) : Locked(c) /\ b.resetAt <= c.resetAt
<1>1. ASSUME HitTypeOK, HitNext PROVE Kept
  <2>1. SUFFICES ASSUME NEW b \in Range(buckets), NEW a \in Address, NEW again \in Address,
                        Locked(b), b.key = keyForAddress(a), SameClient(a, again)
                 PROVE  \/ \E c \in BucketOf(again, buckets') : c.count >= b.count /\ c.resetAt = b.resetAt
                        \/ /\ Len(buckets) = MaxBuckets
                           /\ \A c \in Range(buckets) : Locked(c) /\ b.resetAt <= c.resetAt
    OBVIOUS
  <2>2. HitLock /\ buckets' \in Seq(Bucket)
    BY <1>1, HitStep DEF HitTypeOK
  <2>3. DOMAIN buckets = 1..Len(buckets) /\ DOMAIN buckets' = 1..Len(buckets')
    BY <1>1, <2>2 DEF HitTypeOK
  <2>4. PICK j \in 1..Len(buckets) : buckets[j] = b
    BY <2>3 DEF Range
  <2>5. b.resetAt > moment /\ b.key = keyForAddress(again)
    BY <2>1, OneKey DEF Locked
  <2>6. CASE \E k \in 1..Len(buckets') : /\ buckets'[k].key = b.key
                                         /\ buckets'[k].count >= b.count
                                         /\ buckets'[k].resetAt = b.resetAt
    BY <2>3, <2>5, <2>6 DEF BucketOf, Range
  <2>7. CASE /\ Len(buckets) = MaxBuckets
             /\ \A i \in 1..Len(buckets) : Locked(buckets[i]) /\ b.resetAt <= buckets[i].resetAt
    BY <2>3, <2>7 DEF Range
  <2>8. QED
    BY <2>1, <2>2, <2>4, <2>5, <2>6, <2>7 DEF HitLock
<1>2. HitTypeOK /\ [HitNext]_hitVars => [Kept]_hitVars
  BY <1>1
<1>3. HitSpec => [][Kept]_hitVars
  <2> HIDE DEF Kept
  <2> QED BY <1>2, HitInvariant, PTL DEF HitSpec
<1>4. QED
  BY <1>3 DEF LockoutKept

------------------------------------------------------------------------------
(***************************************************************************)
(* The browser and its token.                                              *)
(***************************************************************************)
LEMMA ClientInitType == ClientInit => ClientTypeOK
  BY DEF ClientInit, ClientTypeOK, Status, Form, Link

LEMMA ClientNextType == ClientTypeOK /\ [ClientNext]_clientVars => ClientTypeOK'
<1> SUFFICES ASSUME ClientTypeOK, [ClientNext]_clientVars PROVE ClientTypeOK'
  OBVIOUS
<1> USE DEF ClientTypeOK, Status, Form, Link, Token
<1>1. ASSUME NEW a \in Attempt, Submit(a) PROVE ClientTypeOK'
  BY <1>1 DEF Submit
<1>2. ASSUME NEW a \in Attempt, LoginFails(a) PROVE ClientTypeOK'
  BY <1>2 DEF LoginFails, BecomesLive
<1>3. ASSUME NEW a \in Attempt, LoginDone(a) PROVE ClientTypeOK'
  BY <1>3 DEF LoginDone, BecomesLive, ShowInventory
<1>4. ASSUME NEW a \in Attempt, RememberSent(a) PROVE ClientTypeOK'
  BY <1>4 DEF RememberSent, BecomesLive
<1>5. ASSUME NEW a \in Attempt, RememberAnswered(a) PROVE ClientTypeOK'
  BY <1>5 DEF RememberAnswered, BecomesLive, ShowInventory
<1>6. CASE Fetch
  BY <1>6 DEF Fetch
<1>7. CASE SignOutEverywhere
  BY <1>7 DEF SignOutEverywhere, EveryTokenEnds, endSession
<1>8. CASE LogOut
  BY <1>8 DEF LogOut, endSession
<1>9. ASSUME NEW r \in requests, ServerAnswers(r) \/ Receive401(r) \/ ReceiveOther(r)
      PROVE  ClientTypeOK'
  <2>1. CASE ServerAnswers(r)
    <3>1. [r EXCEPT !.answer = IF Live(r.token) THEN "ok" ELSE "401"]
            \in [token : Token \cup {NoToken}, answer : {"none", "ok", "401"}]
      OBVIOUS
    <3>2. QED
      BY <2>1, <3>1 DEF ServerAnswers
  <2>2. CASE Receive401(r)
    BY <2>2 DEF Receive401, endSession
  <2>3. CASE ReceiveOther(r)
    BY <2>3 DEF ReceiveOther
  <2>4. QED
    BY <1>9, <2>1, <2>2, <2>3
<1>10. ASSUME NEW t \in Token, TokenEnds(t) PROVE ClientTypeOK'
  BY <1>10 DEF TokenEnds, EveryTokenEnds
<1>11. CASE ServerDrops
  BY <1>11 DEF ServerDrops
<1>12. CASE Handshaken
  BY <1>12 DEF Handshaken, HandshakeRefused, endSession
<1>13. CASE NoticeArrives
  BY <1>13 DEF NoticeArrives, endSession
<1>14. CASE LinkBreaks
  BY <1>14 DEF LinkBreaks
<1>15. CASE UNCHANGED clientVars
  BY <1>15 DEF clientVars
<1>16. QED
  BY <1>1, <1>2, <1>3, <1>4, <1>5, <1>6, <1>7, <1>8, <1>9, <1>10, <1>11, <1>12, <1>13, <1>14, <1>15
  DEF ClientNext

LEMMA LinkInit == ClientInit => LinkInv
  BY DEF ClientInit, LinkInv

LEMMA LinkNext == LinkInv /\ [ClientNext]_clientVars => LinkInv'
<1> SUFFICES ASSUME LinkInv, [ClientNext]_clientVars PROVE LinkInv'
  OBVIOUS
<1> USE DEF LinkInv
<1>1. ASSUME NEW a \in Attempt, Submit(a) PROVE LinkInv'
  BY <1>1 DEF Submit
<1>2. ASSUME NEW a \in Attempt, LoginFails(a) PROVE LinkInv'
  BY <1>2 DEF LoginFails, BecomesLive
<1>3. ASSUME NEW a \in Attempt, LoginDone(a) PROVE LinkInv'
  BY <1>3 DEF LoginDone, BecomesLive, ShowInventory
<1>4. ASSUME NEW a \in Attempt, RememberSent(a) PROVE LinkInv'
  BY <1>4 DEF RememberSent, BecomesLive
<1>5. ASSUME NEW a \in Attempt, RememberAnswered(a) PROVE LinkInv'
  BY <1>5 DEF RememberAnswered, BecomesLive, ShowInventory
<1>6. CASE Fetch
  BY <1>6 DEF Fetch
<1>7. CASE SignOutEverywhere \/ LogOut \/ NoticeArrives
  BY <1>7 DEF SignOutEverywhere, LogOut, NoticeArrives, endSession
<1>8. ASSUME NEW r \in requests, ServerAnswers(r) \/ Receive401(r) \/ ReceiveOther(r)
      PROVE  LinkInv'
  BY <1>8 DEF ServerAnswers, Receive401, ReceiveOther, endSession
<1>9. ASSUME NEW t \in Token, TokenEnds(t) PROVE LinkInv'
  BY <1>9 DEF TokenEnds
<1>10. CASE ServerDrops
  BY <1>10 DEF ServerDrops
<1>11. CASE Handshaken
  BY <1>11 DEF Handshaken, HandshakeRefused, endSession
<1>12. CASE LinkBreaks
  BY <1>12 DEF LinkBreaks
<1>13. CASE UNCHANGED clientVars
  BY <1>13 DEF clientVars
<1>14. QED
  BY <1>1, <1>2, <1>3, <1>4, <1>5, <1>6, <1>7, <1>8, <1>9, <1>10, <1>11, <1>12, <1>13 DEF ClientNext

LEMMA StillUnderWay == ClientTypeOK /\ LinkInv => NoticeUnderWay
  BY DEF ClientTypeOK, Link, LinkInv, NoticeUnderWay

------------------------------------------------------------------------------
(***************************************************************************)
(* The composition: a step of one part is a stutter of the others.         *)
(***************************************************************************)
AccessInv == SessionInv /\ ClientTypeOK /\ LinkInv /\ HitTypeOK /\ BackoffInv /\ LimitInv /\ IInv

LEMMA PartsStep ==
    ASSUME [AccessNext]_accessVars
    PROVE  /\ [SessionNext]_sessionVars /\ [ClientNext]_clientVars /\ [HitNext]_hitVars
           /\ [BackoffNext]_backoffVars /\ [LimitNext]_limitVars /\ [Next]_vars
<1>1. CASE UNCHANGED accessVars
  BY <1>1 DEF accessVars
<1>2. CASE AccessNext
  BY <1>2 DEF AccessNext
<1>3. QED
  BY <1>1, <1>2

LEMMA AccessInvariant == AccessSpec => []AccessInv
<1>1. AccessInit => AccessInv
  <2>1. HitInit => HitTypeOK
    BY HitConstants DEF HitInit, HitTypeOK
  <2>2. QED
    BY <2>1, SessionInitInv, ClientInitType, LinkInit, BackoffInitInv, LimitInitInv, InitIInv
    DEF AccessInit, AccessInv
<1>2. AccessInv /\ [AccessNext]_accessVars => AccessInv'
  <2> SUFFICES ASSUME AccessInv, [AccessNext]_accessVars PROVE AccessInv'
    OBVIOUS
  <2>1. /\ [SessionNext]_sessionVars /\ [ClientNext]_clientVars /\ [HitNext]_hitVars
        /\ [BackoffNext]_backoffVars /\ [LimitNext]_limitVars /\ [Next]_vars
    BY PartsStep
  <2>2. SessionInv' /\ ClientTypeOK' /\ LinkInv' /\ BackoffInv' /\ LimitInv' /\ IInv'
    BY <2>1, SessionNextInv, ClientNextType, LinkNext, BackoffNextInv, LimitNextInv, NextIInv DEF AccessInv
  <2>3. HitTypeOK'
    BY <2>1, HitStep DEF AccessInv
  <2>4. QED
    BY <2>2, <2>3 DEF AccessInv
<1>3. QED
  BY <1>1, <1>2, PTL DEF AccessSpec

\* Whatever the parts do side by side, the state of each has its type: no
\* counter leaves its bounds and no table outgrows its size, for every value
\* of every constant.
THEOREM AccessAlwaysTyped == AccessSpec => []AccessTypeOK
<1>1. AccessInv => AccessTypeOK
  BY DEF AccessInv, AccessTypeOK, SessionInv, BackoffInv, LimitInv, IInv
<1>2. QED
  BY <1>1, AccessInvariant, PTL

\* Whatever is answered, lost or late between the login form, the requests and
\* the socket, and however often the form is submitted, a browser that shows
\* the inventory has a socket which is connected, connecting or about to
\* deliver its notice: what SessionNoticed needs the fair steps to find
\* (App.tsx, socket.ts).
THEOREM NoticeAlwaysUnderWay == AccessSpec => []NoticeUnderWay
<1>1. AccessInv => NoticeUnderWay
  BY StillUnderWay DEF AccessInv
<1>2. QED
  BY <1>1, AccessInvariant, PTL

\* In the composition as in each part: what the run checks of it holds for
\* every value of the constants.
THEOREM AccessAlwaysSafe ==
    AccessSpec => [](NothingOutlivesSignOut /\ GuessesDelayed /\ SlotsCounted /\ GateSound)
<1>1. AccessInv => NothingOutlivesSignOut /\ GuessesDelayed /\ SlotsCounted /\ GateSound
  BY DEF AccessInv, SessionInv, BackoffInv, LimitInv, IInv, GateSound
<1>2. QED
  BY <1>1, AccessInvariant, PTL
==============================================================================
