---------------------------- MODULE EnforcementPoints ----------------------------
(***************************************************************************)
(* The runtime proxies and the MCP interceptors side by side in front of   *)
(* the same gateways, which share a durable ledger of nonces: the same     *)
(* authorization may be presented to any of them, and their processes may  *)
(* stop at any moment.                                                     *)
(***************************************************************************)
EXTENDS RuntimeProxy, MCPInterceptor, Naturals

ASSUME PointsAssumption ==
    /\ Proxied \cap Stream = {} /\ Caller = Proxied \cup Stream
    /\ KeyOf \in [Auth -> Key] /\ SingleUse \subseteq Auth

VARIABLE uses   \* history: how often each single-use key was used, by anybody

pointVars == <<gateVars, proxyVars, interceptorVars, uses>>

PointsInit ==
    /\ Init /\ ProxyInit /\ InterceptorInit
    /\ uses = [k \in Key |-> 0]

\* An operation starts, or a tool call is seen on the other side for the first time.
Starts(c) == c \in Proxied /\ phase[c] = "granted" /\ phase'[c] = "running"

Passes(s) ==
    /\ s \in Stream /\ GuardedCall(s)
    /\ seen[s] \cap {"hook", "server"} = {}
    /\ seen'[s] \cap {"hook", "server"} # {}

KeyUsed(k) ==
    \/ \E c \in Proxied : Starts(c) /\ asked[c] \in SingleUse /\ KeyOf[asked[c]] = k
    \/ \E s \in Stream : Passes(s) /\ message[s].auth \in SingleUse /\ KeyOf[message[s].auth] = k

CountUses == uses' = [k \in Key |-> IF KeyUsed(k) THEN uses[k] + 1 ELSE uses[k]]

Stop(gone) == Vanish(gone) /\ ProxiesStop(gone) /\ StreamsStop(gone) /\ UNCHANGED uses

PointsNext ==
    \/ ProxyStep /\ UNCHANGED interceptorVars /\ CountUses
    \/ InterceptorStep /\ UNCHANGED proxyVars /\ CountUses
    \/ \E gone \in SUBSET Caller : gone # {} /\ Stop(gone)

PointsSpec == PointsInit /\ [][PointsNext]_pointVars

-----------------------------------------------------------------------------
(* Properties *)

PointsTypeOK ==
    /\ granted \subseteq Key
    /\ phase \in [Caller -> Phase]
    /\ asked \in [Caller -> Auth]
    /\ receipt \in [Caller -> Ended \cup {"none", "DENIED", "AUTHORIZED"}]
    /\ ProxyTypeOK /\ InterceptorTypeOK
    /\ uses \in [Key -> Nat]

\* Where a proxy is, and what its call has got by then.
ProxyInv ==
    \A c \in Proxied :
        /\ stage[c] = "gate" <=> phase[c] # "idle"
        /\ stage[c] = "gate" => asked[c] = carried[c] /\ BoundTo[asked[c]] = Effective(c)
        /\ stage[c] # "idle" => given[c] \in Args \ Offending
        /\ stage[c] \in {"renew", "ask", "gate"} => carried[c] # NoAuth
        /\ stage[c] = "direct" => carried[c] = NoAuth /\ c \notin Demanding
        /\ stage[c] # "idle" /\ phase[c] # "running" => ran[c] = NoArgs
        /\ stage[c] # "idle" => response[c] = "none" /\ c \notin approved
        /\ phase[c] = "running" => ran[c] # NoArgs

StreamInv ==
    \A s \in Stream :
        /\ phase[s] # "running" /\ (reader[s] = "gate" <=> phase[s] # "idle")
        /\ reader[s] \in {"ask", "gate"} => GuardedCall(s) /\ message[s].auth # NoAuthorization
        /\ reader[s] = "gate" => asked[s] = message[s].auth /\ (s \in cleared <=> phase[s] = "granted")
        /\ reader[s] \in {"ask", "gate", "forward", "reject"} => seen[s] = {}
        /\ reader[s] \in {"ask", "reject"} => s \notin cleared
        /\ reader[s] = "write" => seen[s] \subseteq {"hook"}
        /\ GuardedCall(s) /\ reader[s] \in {"forward", "write"} => s \in cleared
        /\ s \in cleared => message[s].auth \in Auth

\* c may still use the single-use key k, which it has been granted.
Entitled(c, k) ==
    \/ /\ c \in Proxied /\ phase[c] = "granted"
       /\ asked[c] \in SingleUse /\ KeyOf[asked[c]] = k
    \/ /\ c \in Stream /\ GuardedCall(c) /\ c \in cleared /\ seen[c] = {}
       /\ reader[c] \in {"gate", "forward", "write"}
       /\ message[c].auth \in SingleUse /\ KeyOf[message[c].auth] = k

UseInv ==
    \A k \in Key :
        /\ uses[k] \in {0, 1} /\ (uses[k] = 1 => k \in granted)
        /\ \A c \in Caller : Entitled(c, k) => k \in granted /\ uses[k] = 0
        /\ \A c, d \in Caller : Entitled(c, k) /\ Entitled(d, k) => c = d

\* The guards and the gate agree on how far a call is; whoever may still use a
\* single-use key is alone with it, and it has not been used; what a proxy has answered is
\* true of what it did.
PointsInv == PointsTypeOK /\ ProxyInv /\ AnswersAreTrue /\ StreamInv /\ UseInv

\* A single-use authorization stands for one use, whichever proxy or interceptor it is
\* presented to, how often, and whatever stops in between (authorization.go:711-716).
UsedOnce == \A k \in Key : uses[k] <= 1
==============================================================================
