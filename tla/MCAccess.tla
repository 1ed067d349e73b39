------------------------------ MODULE MCAccess ------------------------------
(***************************************************************************)
(* The instance of everything that decides who may call the server, how    *)
(* often and how many at once. The six components share no state, so one   *)
(* run explores them side by side: part says which of them moves, the      *)
(* others stay as they start.                                              *)
(***************************************************************************)
EXTENDS Sessions, ClientSession, HitCounter, LoginBackoff, SocketLimits, WorkGate

CONSTANTS FirstLogin, FirstKey

VARIABLE part

accessVars == <<part, sessionVars, clientVars, hitVars, backoffVars, limitVars, vars>>

\* Addresses: one IPv4 client in two notations, a net with two hosts, and
\* another net.
Addresses ==
    {[family |-> f, net |-> 1, host |-> 1] : f \in {"v4", "mapped"}}
        \cup {[family |-> "v6", net |-> 2, host |-> h] : h \in {1, 2}}
        \cup {[family |-> "v6", net |-> 3, host |-> 1]}

\* Handshakes of two clients behind a TLS proxy that is trusted for the first
\* of them: without Origin, from the page, and from elsewhere.
Handshakes ==
    LET Asked(c, origin, fproto, trusted) ==
          [client |-> c, origin |-> origin, encrypted |-> FALSE, host |-> "butler",
           fproto |-> fproto, fhost |-> Absent, trusted |-> trusted]
    IN  {Asked(1, Absent, Absent, FALSE), Asked(1, <<"http", "butler">>, Absent, FALSE),
         Asked(1, <<"https", "butler">>, "https", TRUE), Asked(2, <<"https", "butler">>, "https", FALSE),
         Asked(2, Malformed, Absent, FALSE), Asked(2, Absent, Absent, FALSE)}

AccessInit ==
    /\ SessionInit /\ config = [login |-> FirstLogin, key |-> FirstKey]
    /\ ClientInit /\ HitInit /\ BackoffInit /\ LimitInit /\ Init
    /\ part \in {"sessions", "client", "hits", "backoff", "limits", "gate"}
    \* Only the part that moves starts in more than one state.
    /\ part = "sessions" \/ (devices = <<>> /\ jwts = {} /\ stored.login = Unset)
    /\ part = "client" \/ tbToken = NoToken

AccessNext ==
    /\ UNCHANGED part
    /\ \/ part = "sessions" /\ SessionNext /\ UNCHANGED <<clientVars, hitVars, backoffVars, limitVars, vars>>
       \/ part = "client" /\ ClientNext /\ UNCHANGED <<sessionVars, hitVars, backoffVars, limitVars, vars>>
       \/ part = "hits" /\ HitNext /\ UNCHANGED <<sessionVars, clientVars, backoffVars, limitVars, vars>>
       \/ part = "backoff" /\ BackoffNext /\ UNCHANGED <<sessionVars, clientVars, hitVars, limitVars, vars>>
       \/ part = "limits" /\ LimitNext /\ UNCHANGED <<sessionVars, clientVars, hitVars, backoffVars, vars>>
       \/ part = "gate" /\ Next /\ UNCHANGED <<sessionVars, clientVars, hitVars, backoffVars, limitVars>>

\* Each part keeps its fairness; the parts that do not move have nothing
\* under way.
AccessSpec ==
    /\ AccessInit /\ [][AccessNext]_accessVars
    /\ SessionFairness /\ ClientFairness /\ Fairness

\* The state of every component has its type.
AccessTypeOK ==
    SessionTypeOK /\ ClientTypeOK /\ HitTypeOK /\ BackoffTypeOK /\ LimitTypeOK /\ TypeOK
=============================================================================
