--------------------------- MODULE MCEnforcementPoints ---------------------------
(* Two proxies and a client's stream.  One proxy demands authorization and can   *)
(* renew it, the other does neither.  once is bound to the redacted arguments,   *)
(* often to those with the secret in them.                                       *)
EXTENDS EnforcementPoints, TLC

CONSTANTS p1, p2, s1, secret, clean, bad, once, often, k1, t1, t2

MCProxied == {p1}
MCStream == {s1}
MCCaller == MCProxied \cup MCStream
MCArgs == {secret, clean, bad}
MCRedacted == secret :> clean @@ clean :> clean @@ bad :> bad
MCOffending == {bad}
MCAuth == {once, often}
MCBoundTo == once :> clean @@ often :> secret
MCKey == {k1}
MCKeyOf == [a \in MCAuth |-> k1]
MCSingleUse == {once}
MCTool == {t1, t2}
Call(t, a) == [kind |-> "call", tool |-> t, auth |-> a]
MCIncoming == {[Call(t1, NoAuthorization) EXCEPT !.kind = k] : k \in {"unparsable", "other", "badcall"}}
    \cup {Call(t1, NoAuthorization), Call(t1, once), Call(t1, often), Call(t2, once)}
MCLocked == {t1}
==============================================================================
