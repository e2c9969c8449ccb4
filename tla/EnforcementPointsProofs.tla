------------------------- MODULE EnforcementPointsProofs -------------------------
(***************************************************************************)
(* The invariant of proxies and interceptors on common gateways, and what  *)
(* follows: a single-use authorization is used once, what runs is what was *)
(* bound, and what was spent is delivered.                                 *)
(***************************************************************************)
EXTENDS EnforcementPoints, TLAPS

USE DEF Phase, Ended

\* The step's own part of the invariant, and the two properties it carries along.
ProxyPart == ProxyTypeOK /\ ProxyInv /\ RunsWhatWasBound /\ AnswersAreTrue
StreamPart == InterceptorTypeOK /\ StreamInv /\ SpentIsDelivered
GateType ==
    /\ granted \subseteq Key /\ phase \in [Caller -> Phase] /\ asked \in [Caller -> Auth]
    /\ receipt \in [Caller -> Ended \cup {"none", "DENIED", "AUTHORIZED"}]
UsePart == uses \in [Key -> Nat] /\ UseInv
Whole == GateType /\ ProxyPart /\ StreamPart /\ UsePart

LEMMA WholeIsInv == Whole <=> PointsInv /\ RunsWhatWasBound /\ SpentIsDelivered
BY DEF Whole, GateType, ProxyPart, StreamPart, UsePart, PointsInv, PointsTypeOK

\* A step that leaves the proxies and their calls alone keeps their part.
LEMMA ProxiesRest ==
    ASSUME ProxyPart, UNCHANGED proxyVars,
           \A c \in Proxied : /\ phase'[c] = phase[c] /\ asked'[c] = asked[c]
                              /\ receipt'[c] = receipt[c]
    PROVE  ProxyPart'
BY DEF ProxyPart, ProxyTypeOK, ProxyInv, RunsWhatWasBound, AnswersAreTrue, proxyVars, Effective

LEMMA StreamsRest ==
    ASSUME StreamPart, UNCHANGED interceptorVars,
           \A s \in Stream : phase'[s] = phase[s] /\ asked'[s] = asked[s]
    PROVE  StreamPart'
BY DEF StreamPart, InterceptorTypeOK, StreamInv, SpentIsDelivered, interceptorVars, GuardedCall

\* Steps that entitle nobody to use a key.
LEMMA UseRests ==
    ASSUME UsePart, uses' = uses, granted \subseteq granted',
           \A c \in Caller, k \in Key : Entitled(c, k)' => Entitled(c, k)
    PROVE  UsePart'
BY DEF UsePart, UseInv

\* A grant of k0, which was granted to nobody, to c0.
LEMMA UseGranted ==
    ASSUME UsePart, uses' = uses, NEW c0 \in Caller, NEW k0 \in Key,
           k0 \notin granted, granted' = granted \cup {k0},
           \A c \in Caller, k \in Key : Entitled(c, k)' => Entitled(c, k) \/ (c = c0 /\ k = k0)
    PROVE  UsePart'
BY DEF UsePart, UseInv

\* c0 uses k0 and is not entitled to it any more.
LEMMA UseSpent ==
    ASSUME UsePart, granted' = granted, NEW c0 \in Caller, NEW k0 \in Key,
           Entitled(c0, k0), uses' = [k \in Key |-> IF k = k0 THEN uses[k] + 1 ELSE uses[k]],
           ~Entitled(c0, k0)',
           \A c \in Caller, k \in Key : Entitled(c, k)' => Entitled(c, k)
    PROVE  UsePart'
<1>1. uses[k0] = 0 /\ k0 \in granted
    BY DEF UsePart, UseInv
<1>2. uses' \in [Key -> Nat]
    BY DEF UsePart
<1>3. ASSUME NEW c \in Caller PROVE ~Entitled(c, k0)'
    BY <1>3 DEF UsePart, UseInv
<1> QED
    BY <1>1, <1>2, <1>3 DEF UsePart, UseInv

\* Nobody uses a key in a step in which no proxy starts and no stream shows anything.
LEMMA NoUse ==
    ASSUME uses \in [Key -> Nat], CountUses, \A k \in Key : ~KeyUsed(k)
    PROVE  uses' = uses
BY DEF CountUses

\* A step of a proxy p which starts nothing and is no grant entitles nobody.
LEMMA QuietProxy ==
    ASSUME NEW p \in Proxied, UsePart, GateType, UNCHANGED interceptorVars, UNCHANGED granted,
           \A c \in Caller : c # p => phase'[c] = phase[c] /\ asked'[c] = asked[c],
           phase'[p] # "granted" \/ (phase'[p] = phase[p] /\ asked'[p] = asked[p]),
           ~Starts(p), CountUses
    PROVE  UsePart'
<1>1. \A k \in Key : ~KeyUsed(k)
    <2>1. \A c \in Proxied : ~Starts(c)
        BY PointsAssumption DEF Starts
    <2>2. \A s \in Stream : ~Passes(s)
        BY DEF Passes, GuardedCall, interceptorVars
    <2> QED BY <2>1, <2>2 DEF KeyUsed
<1>2. uses' = uses
    BY <1>1, NoUse DEF UsePart
<1>3. ASSUME NEW c \in Caller, NEW k \in Key, Entitled(c, k)' PROVE Entitled(c, k)
    BY <1>3, PointsAssumption DEF Entitled, GuardedCall, interceptorVars
<1> QED BY <1>2, <1>3, UseRests

\* The same of a stream, whose message is shown to nobody in the step.
LEMMA QuietStream ==
    ASSUME NEW s \in Stream, UsePart, GateType, StreamPart, UNCHANGED granted,
           \A c \in Caller : c # s => phase'[c] = phase[c] /\ asked'[c] = asked[c],
           phase'[s] # "running",
           \A d \in Stream : d # s => /\ reader'[d] = reader[d] /\ message'[d] = message[d]
                                     /\ seen'[d] = seen[d] /\ (d \in cleared' <=> d \in cleared),
           ~Passes(s), \A k \in Key : Entitled(s, k)' => Entitled(s, k), CountUses
    PROVE  UsePart'
<1>1. \A k \in Key : ~KeyUsed(k)
    <2>1. \A c \in Proxied : ~Starts(c)
        BY PointsAssumption DEF Starts
    <2>2. \A d \in Stream : ~Passes(d)
        BY DEF Passes
    <2> QED BY <2>1, <2>2 DEF KeyUsed
<1>2. uses' = uses
    BY <1>1, NoUse DEF UsePart
<1>3. ASSUME NEW c \in Caller, NEW k \in Key, Entitled(c, k)' PROVE Entitled(c, k)
    <2>1. CASE c = s BY <1>3, <2>1
    <2>2. CASE c # s BY <1>3, <2>2, PointsAssumption DEF Entitled, GuardedCall
    <2> QED BY <2>1, <2>2
<1> QED BY <1>2, <1>3, UseRests

LEMMA InitWhole == PointsInit => Whole
<1> SUFFICES ASSUME PointsInit PROVE Whole
    OBVIOUS
<1> USE DEF PointsInit, Init, ProxyInit, InterceptorInit
<1>1. GateType
    BY DEF GateType
<1>2. ProxyPart
    BY PointsAssumption DEF ProxyPart, ProxyTypeOK, ProxyInv, RunsWhatWasBound, AnswersAreTrue, Stage, Decision
<1>3. InterceptorTypeOK
    BY InterceptorAssumption DEF InterceptorTypeOK, Reader, Sight
<1>4. StreamInv
    BY PointsAssumption DEF StreamInv, GuardedCall
<1>5. SpentIsDelivered
    BY DEF SpentIsDelivered
<1>6. UsePart
    BY PointsAssumption DEF UsePart, UseInv, Entitled
<1> QED BY <1>1, <1>2, <1>3, <1>4, <1>5, <1>6 DEF Whole, StreamPart

-----------------------------------------------------------------------------
(* The proxies. *)

LEMMA ProxyKeeps ==
    ASSUME Whole, ProxyStep, UNCHANGED interceptorVars, CountUses
    PROVE  Whole'
<1> USE PointsAssumption, ProxyAssumption DEF Whole
<1> PICK c \in Proxied :
        \/ \E a \in Args, x \in Auth \cup {NoAuth} : Receive(c, a, x)
        \/ RunDirectly(c)
        \/ \E x \in Auth \cup {NoAuth} : Renew(c, x)
        \/ AskGateway(c) \/ GatewayDenies(c) \/ GatewayGrants(c)
        \/ Execute(c)
        \/ \E outcome \in Ended, failed \in BOOLEAN : Finish(c, outcome, failed)
    BY DEF ProxyStep
<1>s. ASSUME \A s \in Stream : phase'[s] = phase[s] /\ asked'[s] = asked[s]
      PROVE  StreamPart'
    BY <1>s, StreamsRest
<1> USE DEF ProxyPart, ProxyTypeOK, Stage, Decision
<1>1. ASSUME NEW a \in Args, NEW x \in Auth \cup {NoAuth}, Receive(c, a, x) PROVE Whole'
    <2> USE <1>1 DEF Receive, gateVars
    <2>1. GateType'
        BY DEF GateType
    <2>2. ProxyTypeOK'
        BY DEF Fate, GuardrailDecision, Respond
    <2>3. ProxyInv'
        BY DEF ProxyInv, Fate, GuardrailDecision, Respond, Effective
    <2>4. RunsWhatWasBound'
        BY DEF RunsWhatWasBound, Effective
    <2>a. AnswersAreTrue'
        BY DEF AnswersAreTrue, Respond
    <2>5. StreamPart'
        BY <1>s
    <2>6. UsePart'
        BY QuietProxy DEF Starts
    <2> QED BY <2>1, <2>2, <2>3, <2>4, <2>a, <2>5, <2>6
<1>2. ASSUME RunDirectly(c) PROVE Whole'
    <2> USE <1>2 DEF RunDirectly, Perform, Respond, gateVars
    <2>1. GateType'
        BY DEF GateType
    <2>2. ProxyTypeOK'
        BY DEF Effective, GuardrailDecision, ProxyInv
    <2>3. ProxyInv'
        BY DEF ProxyInv, Effective
    <2>4. RunsWhatWasBound'
        BY DEF RunsWhatWasBound, Effective, ProxyInv
    <2>a. AnswersAreTrue'
        BY DEF AnswersAreTrue, RunsWhatWasBound, ProxyInv, Effective, GuardrailDecision, GateType
    <2>5. StreamPart'
        BY <1>s
    <2>6. UsePart'
        BY QuietProxy DEF Starts
    <2> QED BY <2>1, <2>2, <2>3, <2>4, <2>a, <2>5, <2>6
<1>3. ASSUME NEW x \in Auth \cup {NoAuth}, Renew(c, x) PROVE Whole'
    <2> USE <1>3 DEF Renew, Respond, gateVars
    <2>1. GateType'
        BY DEF GateType
    <2>2. ProxyTypeOK'
        OBVIOUS
    <2>3. ProxyInv'
        BY DEF ProxyInv, Effective
    <2>4. RunsWhatWasBound'
        BY DEF RunsWhatWasBound, Effective, ProxyInv
    <2>a. AnswersAreTrue'
        BY DEF AnswersAreTrue, RunsWhatWasBound, ProxyInv, Effective, GuardrailDecision, GateType
    <2>5. StreamPart'
        BY <1>s
    <2>6. UsePart'
        BY QuietProxy DEF Starts
    <2> QED BY <2>1, <2>2, <2>3, <2>4, <2>a, <2>5, <2>6
<1>4. ASSUME AskGateway(c) PROVE Whole'
    <2> USE <1>4 DEF AskGateway, Respond, Ask, AskInVain
    <2>1. GateType'
        BY DEF GateType, ProxyInv
    <2>2. ProxyTypeOK'
        OBVIOUS
    <2>3. ProxyInv'
        BY DEF ProxyInv, Effective, GateType
    <2>4. RunsWhatWasBound'
        BY DEF RunsWhatWasBound, Effective, ProxyInv
    <2>a. AnswersAreTrue'
        BY DEF AnswersAreTrue, RunsWhatWasBound, ProxyInv, Effective, GuardrailDecision, GateType
    <2>5. StreamPart'
        BY <1>s DEF GateType
    <2>6. UsePart'
        BY QuietProxy DEF Starts, GateType
    <2> QED BY <2>1, <2>2, <2>3, <2>4, <2>a, <2>5, <2>6
<1>5. ASSUME GatewayDenies(c) PROVE Whole'
    <2> USE <1>5 DEF GatewayDenies, Respond, Deny
    <2>1. GateType'
        BY DEF GateType
    <2>2. ProxyTypeOK'
        OBVIOUS
    <2>3. ProxyInv'
        BY DEF ProxyInv, Effective, GateType
    <2>4. RunsWhatWasBound'
        BY DEF RunsWhatWasBound, Effective, ProxyInv
    <2>a. AnswersAreTrue'
        BY DEF AnswersAreTrue, RunsWhatWasBound, ProxyInv, Effective, GuardrailDecision, GateType
    <2>5. StreamPart'
        BY <1>s DEF GateType
    <2>6. UsePart'
        BY QuietProxy DEF Starts, GateType
    <2> QED BY <2>1, <2>2, <2>3, <2>4, <2>a, <2>5, <2>6
<1>6. ASSUME GatewayGrants(c) PROVE Whole'
    <2> USE <1>6 DEF GatewayGrants, Grant, proxyVars
    <2>1. GateType'
        BY DEF GateType
    <2>2. ProxyTypeOK'
        OBVIOUS
    <2>3. ProxyInv'
        BY DEF ProxyInv, Effective, GateType
    <2>4. RunsWhatWasBound'
        BY DEF RunsWhatWasBound, Effective, ProxyInv
    <2>a. AnswersAreTrue'
        BY DEF AnswersAreTrue, RunsWhatWasBound, ProxyInv, Effective, GuardrailDecision, GateType
    <2>5. StreamPart'
        BY <1>s DEF GateType
    <2>6. uses' = uses
        <3>1. \A d \in Proxied : ~Starts(d)
            BY DEF Starts, GateType
        <3>2. \A s \in Stream : ~Passes(s)
            BY DEF Passes, GuardedCall, interceptorVars
        <3> QED BY <3>1, <3>2, NoUse DEF KeyUsed, UsePart
    <2>7. ASSUME NEW d \in Caller, NEW k \in Key, Entitled(d, k)'
          PROVE  Entitled(d, k) \/ (d = c /\ asked[c] \in SingleUse /\ k = KeyOf[asked[c]])
        BY <2>7 DEF Entitled, GuardedCall, interceptorVars, GateType
    <2>8. UsePart'
        <3>1. CASE asked[c] \in SingleUse
            <4>1. KeyOf[asked[c]] \in Key
                BY <3>1
            <4> QED BY <2>6, <2>7, <3>1, <4>1, UseGranted
        <3>2. CASE asked[c] \notin SingleUse
            BY <2>6, <2>7, <3>2, UseRests
        <3> QED BY <3>1, <3>2
    <2> QED BY <2>1, <2>2, <2>3, <2>4, <2>a, <2>5, <2>8
<1>7. ASSUME Execute(c) PROVE Whole'
    <2> USE <1>7 DEF Execute, Perform, Start
    <2>1. GateType'
        BY DEF GateType
    <2>2. ProxyTypeOK'
        BY DEF Effective, ProxyInv
    <2>3. ProxyInv'
        BY DEF ProxyInv, Effective, GateType
    <2>4. RunsWhatWasBound'
        BY DEF RunsWhatWasBound, Effective, ProxyInv
    <2>a. AnswersAreTrue'
        BY DEF AnswersAreTrue, RunsWhatWasBound, ProxyInv, Effective, GuardrailDecision, GateType
    <2>5. StreamPart'
        BY <1>s DEF GateType
    <2>6. ASSUME NEW d \in Caller, NEW k \in Key, Entitled(d, k)'
          PROVE  Entitled(d, k)
        BY <2>6 DEF Entitled, GuardedCall, interceptorVars, GateType
    <2>7. ASSUME NEW k \in Key PROVE ~Entitled(c, k)'
        BY DEF Entitled, GateType
    <2>8. ASSUME NEW k \in Key
          PROVE  KeyUsed(k) <=> asked[c] \in SingleUse /\ k = KeyOf[asked[c]]
        <3>1. \A d \in Proxied : Starts(d) <=> d = c
            BY DEF Starts, GateType
        <3>2. \A s \in Stream : ~Passes(s)
            BY DEF Passes, GuardedCall, interceptorVars
        <3> QED BY <3>1, <3>2 DEF KeyUsed
    <2>9. UsePart'
        <3>1. CASE asked[c] \in SingleUse
            <4>1. KeyOf[asked[c]] \in Key /\ Entitled(c, KeyOf[asked[c]])
                BY <3>1 DEF Entitled
            <4>2. uses' = [k \in Key |-> IF k = KeyOf[asked[c]] THEN uses[k] + 1 ELSE uses[k]]
                BY <3>1, <2>8 DEF CountUses
            <4> QED BY <2>6, <2>7, <4>1, <4>2, UseSpent
        <3>2. CASE asked[c] \notin SingleUse
            BY <2>6, <2>8, <3>2, NoUse, UseRests DEF UsePart
        <3> QED BY <3>1, <3>2
    <2> QED BY <2>1, <2>2, <2>3, <2>4, <2>a, <2>5, <2>9
<1>8. ASSUME NEW outcome \in Ended, NEW failed \in BOOLEAN, Finish(c, outcome, failed) PROVE Whole'
    <2> USE <1>8 DEF Finish, End, Respond
    <2>1. GateType'
        BY DEF GateType
    <2>2. ProxyTypeOK'
        BY DEF GuardrailDecision
    <2>3. ProxyInv'
        BY DEF ProxyInv, Effective, GateType
    <2>4. RunsWhatWasBound'
        BY DEF RunsWhatWasBound, Effective, ProxyInv
    <2>a. AnswersAreTrue'
        BY DEF AnswersAreTrue, RunsWhatWasBound, ProxyInv, Effective, GuardrailDecision, GateType
    <2>5. StreamPart'
        BY <1>s DEF GateType
    <2>6. UsePart'
        BY QuietProxy DEF Starts, GateType
    <2> QED BY <2>1, <2>2, <2>3, <2>4, <2>a, <2>5, <2>6
<1> QED BY <1>1, <1>2, <1>3, <1>4, <1>5, <1>6, <1>7, <1>8

-----------------------------------------------------------------------------
(* The streams. *)

LEMMA StreamKeeps ==
    ASSUME Whole, InterceptorStep, UNCHANGED proxyVars, CountUses
    PROVE  Whole'
<1> USE PointsAssumption, InterceptorAssumption DEF Whole
<1> PICK s \in Stream :
        \/ \E m \in Incoming, drifted \in BOOLEAN : Read(s, m, drifted)
        \/ AskForCall(s) \/ CallDenied(s) \/ CallGranted(s) \/ CallCleared(s)
        \/ Forward(s) \/ Deliver(s) \/ Reject(s) \/ EndOfStream(s)
    BY DEF InterceptorStep
<1>p. ASSUME \A c \in Proxied : /\ phase'[c] = phase[c] /\ asked'[c] = asked[c]
                                 /\ receipt'[c] = receipt[c]
      PROVE  ProxyPart'
    BY <1>p, ProxiesRest
<1> USE DEF StreamPart, InterceptorTypeOK, Reader, Sight, Move
<1>1. ASSUME NEW m \in Incoming, NEW drifted \in BOOLEAN, Read(s, m, drifted) PROVE Whole'
    <2> USE <1>1 DEF Read, gateVars
    <2>1. GateType'
        BY DEF GateType
    <2>2. InterceptorTypeOK'
        BY DEF GateType, Route
    <2>3. StreamInv'
        <3>1. ASSUME NEW t \in Stream, t # s, StreamInv
              PROVE  /\ phase'[t] = phase[t] /\ reader'[t] = reader[t] /\ seen'[t] = seen[t]
                     /\ message'[t] = message[t] /\ asked'[t] = asked[t]
                     /\ (t \in cleared' <=> t \in cleared)
            BY <3>1
        <3>2. Route(s, m, drifted) = "ask" => m \in Message /\ m.kind = "call"
                                              /\ s \in Guarded \cap FromClient
                                              /\ m.auth # NoAuthorization
            BY DEF Route, Message
        <3>3. Route(s, m, drifted) \in {"forward", "write"} =>
                 ~(s \in Guarded \cap FromClient /\ m.kind = "call")
            BY DEF Route
        <3>4. Route(s, m, drifted) \in {"ask", "reject", "forward", "write"}
            BY DEF Route
        <3> QED BY <3>1, <3>2, <3>3, <3>4 DEF StreamInv, GuardedCall, GateType
    <2>4. SpentIsDelivered'
        BY DEF SpentIsDelivered, StreamInv, GuardedCall
    <2>5. ProxyPart'
        BY <1>p DEF GateType
    <2>6. UsePart'
        <3>1. ~Passes(s)
            BY DEF Passes, GuardedCall, StreamInv
        <3>2. \A k \in Key : Entitled(s, k)' => Entitled(s, k)
            BY DEF Entitled, StreamInv, GuardedCall, GateType
        <3> QED BY <3>1, <3>2, QuietStream DEF GateType, StreamPart, StreamInv
    <2> QED BY <2>1, <2>2, <2>3, <2>4, <2>5, <2>6
<1>2. ASSUME AskForCall(s) PROVE Whole'
    <2> USE <1>2 DEF AskForCall, Ask, AskInVain
    <2>1. GateType'
        BY DEF GateType, StreamInv, Message
    <2>2. InterceptorTypeOK'
        BY DEF GateType, Route
    <2>3. StreamInv'
        BY DEF StreamInv, GuardedCall, GateType, Route
    <2>4. SpentIsDelivered'
        BY DEF SpentIsDelivered, StreamInv, GuardedCall
    <2>5. ProxyPart'
        BY <1>p DEF GateType
    <2>6. UsePart'
        <3>1. ~Passes(s)
            BY DEF Passes, GuardedCall, StreamInv
        <3>2. \A k \in Key : Entitled(s, k)' => Entitled(s, k)
            BY DEF Entitled, StreamInv, GuardedCall, GateType
        <3> QED BY <3>1, <3>2, QuietStream DEF GateType, StreamPart, StreamInv
    <2> QED BY <2>1, <2>2, <2>3, <2>4, <2>5, <2>6
<1>3. ASSUME CallDenied(s) PROVE Whole'
    <2> USE <1>3 DEF CallDenied, Deny
    <2>1. GateType'
        BY DEF GateType
    <2>2. InterceptorTypeOK'
        BY DEF GateType, Route
    <2>3. StreamInv'
        BY DEF StreamInv, GuardedCall, GateType, Route
    <2>4. SpentIsDelivered'
        BY DEF SpentIsDelivered, StreamInv, GuardedCall
    <2>5. ProxyPart'
        BY <1>p DEF GateType
    <2>6. UsePart'
        <3>1. ~Passes(s)
            BY DEF Passes, GuardedCall, StreamInv
        <3>2. \A k \in Key : Entitled(s, k)' => Entitled(s, k)
            BY DEF Entitled, StreamInv, GuardedCall, GateType
        <3> QED BY <3>1, <3>2, QuietStream DEF GateType, StreamPart, StreamInv
    <2> QED BY <2>1, <2>2, <2>3, <2>4, <2>5, <2>6
<1>4. ASSUME CallGranted(s) PROVE Whole'
    <2> USE <1>4 DEF CallGranted, Grant
    <2>1. GateType'
        BY DEF GateType
    <2>2. InterceptorTypeOK'
        BY DEF GateType, Route
    <2>3. StreamInv'
        BY DEF StreamInv, GuardedCall, GateType, Route
    <2>4. SpentIsDelivered'
        BY DEF SpentIsDelivered, StreamInv, GuardedCall
    <2>5. ProxyPart'
        BY <1>p DEF GateType
    <2>u. uses' = uses
        <3>1. \A d \in Proxied : ~Starts(d)
            BY DEF Starts, GateType
        <3>2. \A d \in Stream : ~Passes(d)
            BY DEF Passes
        <3> QED BY <3>1, <3>2, NoUse DEF KeyUsed, UsePart
    <2>e. ASSUME NEW d \in Caller, NEW k \in Key, Entitled(d, k)'
          PROVE  Entitled(d, k) \/ (d = s /\ asked[s] \in SingleUse /\ k = KeyOf[asked[s]])
        BY <2>e DEF Entitled, GuardedCall, GateType, StreamInv
    <2>6. UsePart'
        <3>1. CASE asked[s] \in SingleUse
            <4>1. KeyOf[asked[s]] \in Key
                BY <3>1
            <4> QED BY <2>u, <2>e, <3>1, <4>1, UseGranted
        <3>2. CASE asked[s] \notin SingleUse
            BY <2>u, <2>e, <3>2, UseRests
        <3> QED BY <3>1, <3>2
    <2> QED BY <2>1, <2>2, <2>3, <2>4, <2>5, <2>6
<1>5. ASSUME CallCleared(s) PROVE Whole'
    <2> USE <1>5 DEF CallCleared, Leave
    <2>1. GateType'
        BY DEF GateType
    <2>2. InterceptorTypeOK'
        BY DEF GateType, Route
    <2>3. StreamInv'
        BY DEF StreamInv, GuardedCall, GateType, Route
    <2>4. SpentIsDelivered'
        BY DEF SpentIsDelivered, StreamInv, GuardedCall
    <2>5. ProxyPart'
        BY <1>p DEF GateType
    <2>6. UsePart'
        <3>1. ~Passes(s)
            BY DEF Passes, GuardedCall, StreamInv
        <3>2. \A k \in Key : Entitled(s, k)' => Entitled(s, k)
            BY DEF Entitled, StreamInv, GuardedCall, GateType
        <3> QED BY <3>1, <3>2, QuietStream DEF GateType, StreamPart, StreamInv
    <2> QED BY <2>1, <2>2, <2>3, <2>4, <2>5, <2>6
<1>6. ASSUME Forward(s) PROVE Whole'
    <2> USE <1>6 DEF Forward, gateVars, Show
    <2>1. GateType'
        BY DEF GateType
    <2>2. InterceptorTypeOK'
        BY DEF GateType, Route
    <2>3. StreamInv'
        BY DEF StreamInv, GuardedCall, GateType, Route
    <2>4. SpentIsDelivered'
        BY DEF SpentIsDelivered, StreamInv, GuardedCall
    <2>5. ProxyPart'
        BY <1>p DEF GateType
    <2>6. UsePart'
        <3>1. ASSUME NEW d \in Caller, NEW k \in Key, Entitled(d, k)' PROVE Entitled(d, k)
            BY <3>1 DEF Entitled, GuardedCall, StreamInv, Show, Move
        <3>2. \A d \in Proxied : ~Starts(d)
            BY DEF Starts
        <3>3. \A d \in Stream : Passes(d) => d = s
            BY DEF Passes, Show
        <3>4. CASE Passes(s) /\ message[s].auth \in SingleUse
            <4>0. PICK k0 \in Key : k0 = KeyOf[message[s].auth]
                BY <3>4
            <4>1. GuardedCall(s) /\ s \in cleared /\ seen[s] = {} /\ reader[s] = "forward"
                BY <3>4 DEF Passes, StreamInv
            <4>2. Entitled(s, k0)
                BY <3>4, <4>0, <4>1 DEF Entitled
            <4>3. ~Entitled(s, k0)'
                BY <3>4 DEF Entitled, Passes
            <4>4. uses' = [k \in Key |-> IF k = k0 THEN uses[k] + 1 ELSE uses[k]]
                BY <3>2, <3>3, <3>4, <4>0 DEF CountUses, KeyUsed
            <4>5. UsePart /\ granted' = granted /\ s \in Caller
                OBVIOUS
            <4> QED BY <3>1, <4>2, <4>3, <4>4, <4>5, UseSpent
        <3>5. CASE ~(Passes(s) /\ message[s].auth \in SingleUse)
            BY <3>1, <3>2, <3>3, <3>5, NoUse, UseRests DEF KeyUsed, UsePart
        <3> QED BY <3>4, <3>5
    <2> QED BY <2>1, <2>2, <2>3, <2>4, <2>5, <2>6
<1>7. ASSUME Deliver(s) PROVE Whole'
    <2> USE <1>7 DEF Deliver, gateVars, Show
    <2>1. GateType'
        BY DEF GateType
    <2>2. InterceptorTypeOK'
        BY DEF GateType, Route
    <2>3. StreamInv'
        BY DEF StreamInv, GuardedCall, GateType, Route
    <2>4. SpentIsDelivered'
        BY DEF SpentIsDelivered, StreamInv, GuardedCall
    <2>5. ProxyPart'
        BY <1>p DEF GateType
    <2>6. UsePart'
        <3>1. ASSUME NEW d \in Caller, NEW k \in Key, Entitled(d, k)' PROVE Entitled(d, k)
            BY <3>1 DEF Entitled, GuardedCall, StreamInv, Show, Move
        <3>2. \A d \in Proxied : ~Starts(d)
            BY DEF Starts
        <3>3. \A d \in Stream : Passes(d) => d = s
            BY DEF Passes, Show
        <3>4. CASE Passes(s) /\ message[s].auth \in SingleUse
            <4>0. PICK k0 \in Key : k0 = KeyOf[message[s].auth]
                BY <3>4
            <4>1. GuardedCall(s) /\ s \in cleared /\ seen[s] = {} /\ reader[s] = "write"
                BY <3>4 DEF Passes, StreamInv
            <4>2. Entitled(s, k0)
                BY <3>4, <4>0, <4>1 DEF Entitled
            <4>3. ~Entitled(s, k0)'
                BY <3>4 DEF Entitled, Passes
            <4>4. uses' = [k \in Key |-> IF k = k0 THEN uses[k] + 1 ELSE uses[k]]
                BY <3>2, <3>3, <3>4, <4>0 DEF CountUses, KeyUsed
            <4>5. UsePart /\ granted' = granted /\ s \in Caller
                OBVIOUS
            <4> QED BY <3>1, <4>2, <4>3, <4>4, <4>5, UseSpent
        <3>5. CASE ~(Passes(s) /\ message[s].auth \in SingleUse)
            BY <3>1, <3>2, <3>3, <3>5, NoUse, UseRests DEF KeyUsed, UsePart
        <3> QED BY <3>4, <3>5
    <2> QED BY <2>1, <2>2, <2>3, <2>4, <2>5, <2>6
<1>8. ASSUME Reject(s) PROVE Whole'
    <2> USE <1>8 DEF Reject, gateVars, Show
    <2>1. GateType'
        BY DEF GateType
    <2>2. InterceptorTypeOK'
        BY DEF GateType, Route
    <2>3. StreamInv'
        BY DEF StreamInv, GuardedCall, GateType, Route
    <2>4. SpentIsDelivered'
        BY DEF SpentIsDelivered, StreamInv, GuardedCall
    <2>5. ProxyPart'
        BY <1>p DEF GateType
    <2>6. UsePart'
        <3>1. ~Passes(s)
            BY DEF Passes, GuardedCall, StreamInv
        <3>2. \A k \in Key : Entitled(s, k)' => Entitled(s, k)
            BY DEF Entitled, StreamInv, GuardedCall, GateType
        <3> QED BY <3>1, <3>2, QuietStream DEF GateType, StreamPart, StreamInv
    <2> QED BY <2>1, <2>2, <2>3, <2>4, <2>5, <2>6
<1>9. ASSUME EndOfStream(s) PROVE Whole'
    <2> USE <1>9 DEF EndOfStream, gateVars
    <2>1. GateType'
        BY DEF GateType
    <2>2. InterceptorTypeOK'
        BY DEF GateType, Route
    <2>3. StreamInv'
        BY DEF StreamInv, GuardedCall, GateType, Route
    <2>4. SpentIsDelivered'
        BY DEF SpentIsDelivered, StreamInv, GuardedCall
    <2>5. ProxyPart'
        BY <1>p DEF GateType
    <2>6. UsePart'
        <3>1. ~Passes(s)
            BY DEF Passes, GuardedCall, StreamInv
        <3>2. \A k \in Key : Entitled(s, k)' => Entitled(s, k)
            BY DEF Entitled, StreamInv, GuardedCall, GateType
        <3> QED BY <3>1, <3>2, QuietStream DEF GateType, StreamPart, StreamInv
    <2> QED BY <2>1, <2>2, <2>3, <2>4, <2>5, <2>6
<1> QED BY <1>1, <1>2, <1>3, <1>4, <1>5, <1>6, <1>7, <1>8, <1>9

-----------------------------------------------------------------------------
LEMMA StopKeeps ==
    ASSUME Whole, NEW gone \in SUBSET Caller, Stop(gone)
    PROVE  Whole'
<1> USE PointsAssumption DEF Whole, Stop, Vanish, ProxiesStop, StreamsStop
<1>1. GateType'
    BY DEF GateType
<1>2. ProxyPart'
    <2> USE DEF ProxyPart, ProxyTypeOK, Stage, Decision
    <2>1. ProxyTypeOK'
        OBVIOUS
    <2>2. ProxyInv'
        BY DEF ProxyInv, Effective, GateType
    <2>3. RunsWhatWasBound'
        BY DEF RunsWhatWasBound, Effective
    <2>4. AnswersAreTrue'
        BY DEF AnswersAreTrue
    <2> QED BY <2>1, <2>2, <2>3, <2>4
<1>3. StreamPart'
    <2> USE InterceptorAssumption DEF StreamPart, InterceptorTypeOK, Reader
    <2>1. InterceptorTypeOK'
        OBVIOUS
    <2>2. StreamInv'
        BY DEF StreamInv, GuardedCall, GateType
    <2>3. SpentIsDelivered'
        BY DEF SpentIsDelivered, GuardedCall
    <2> QED BY <2>1, <2>2, <2>3
<1>4. UsePart'
    <2>1. ASSUME NEW c \in Caller, NEW k \in Key, Entitled(c, k)' PROVE Entitled(c, k)
        BY <2>1 DEF Entitled, GuardedCall, GateType
    <2> QED BY <2>1, UseRests
<1> QED BY <1>1, <1>2, <1>3, <1>4

LEMMA WholeIsInvariant == PointsSpec => []Whole
<1>1. ASSUME Whole, [PointsNext]_pointVars PROVE Whole'
    <2>1. CASE ProxyStep /\ UNCHANGED interceptorVars /\ CountUses
        BY <1>1, <2>1, ProxyKeeps
    <2>2. CASE InterceptorStep /\ UNCHANGED proxyVars /\ CountUses
        BY <1>1, <2>2, StreamKeeps
    <2>3. CASE \E gone \in SUBSET Caller : gone # {} /\ Stop(gone)
        BY <1>1, <2>3, StopKeeps
    <2>4. CASE UNCHANGED pointVars
        <3> USE <1>1, <2>4 DEF pointVars, gateVars, Whole
        <3>1. GateType'
            BY DEF GateType
        <3>2. ProxyPart'
            BY ProxiesRest, <2>4
        <3>3. StreamPart'
            BY StreamsRest, <2>4
        <3>4. UsePart'
            BY UseRests DEF Entitled, GuardedCall, interceptorVars
        <3> QED BY <3>1, <3>2, <3>3, <3>4
    <2> QED BY <1>1, <2>1, <2>2, <2>3, <2>4 DEF PointsNext
<1> QED BY <1>1, InitWhole, PTL DEF PointsSpec

\* The inductive invariant of the guards: for any proxies, streams, arguments,
\* authorizations and messages.
THEOREM PointsInvariant == PointsSpec => []PointsInv
BY WholeIsInvariant, WholeIsInv, PTL

\* A single-use authorization is used once by all proxies and interceptors together.
THEOREM AuthorizationsAreUsedOnce == PointsSpec => []UsedOnce
<1>1. Whole => UsedOnce
    BY DEF Whole, UsePart, UseInv, UsedOnce
<1> QED BY <1>1, WholeIsInvariant, PTL

\* A proxy hands the operation the redacted arguments, to which the authorization used
\* is bound.
THEOREM ProxiesRunWhatWasBound == PointsSpec => []RunsWhatWasBound
BY WholeIsInvariant, WholeIsInv, PTL

\* A proxy's response is true of what its call did: ALLOW and REDACT only of operations
\* that ran, Authorized only of those a gateway granted, BLOCK of none that succeeded.
THEOREM ProxiesAnswerTruthfully == PointsSpec => []AnswersAreTrue
<1>1. Whole => AnswersAreTrue
    BY DEF Whole, ProxyPart
<1> QED BY <1>1, WholeIsInvariant, PTL

\* A tool call that was granted is delivered, or its stream ends.
THEOREM GrantedCallsAreDelivered == PointsSpec => []SpentIsDelivered
BY WholeIsInvariant, WholeIsInv, PTL
-----------------------------------------------------------------------------
(* The guards use the gateways as AuthorizationGate has them used. *)

\* A step of a proxy is a step of its call at the gateway, or none.
LEMMA ProxyStepsAtGate ==
    ASSUME Whole, ProxyStep
    PROVE  Next \/ UNCHANGED gateVars
<1> USE PointsAssumption, ProxyAssumption
<1> PICK c \in Proxied :
        \/ \E a \in Args, x \in Auth \cup {NoAuth} : Receive(c, a, x)
        \/ RunDirectly(c)
        \/ \E x \in Auth \cup {NoAuth} : Renew(c, x)
        \/ AskGateway(c) \/ GatewayDenies(c) \/ GatewayGrants(c)
        \/ Execute(c)
        \/ \E outcome \in Ended, failed \in BOOLEAN : Finish(c, outcome, failed)
    BY DEF ProxyStep
<1>1. CASE \/ \E a \in Args, x \in Auth \cup {NoAuth} : Receive(c, a, x)
           \/ RunDirectly(c)
           \/ \E x \in Auth \cup {NoAuth} : Renew(c, x)
    BY <1>1 DEF Receive, RunDirectly, Renew
<1>2. CASE AskGateway(c)
    <2>1. carried[c] \in Auth
        BY <1>2 DEF Whole, ProxyPart, ProxyInv, ProxyTypeOK, AskGateway
    <2>2. Ask(c, carried[c]) \/ AskInVain(c, carried[c])
        BY <1>2 DEF AskGateway
    <2> QED BY <2>1, <2>2 DEF Next
<1>3. CASE GatewayDenies(c) \/ GatewayGrants(c) \/ Execute(c)
    BY <1>3 DEF GatewayDenies, GatewayGrants, Execute, Perform, Next
<1>4. CASE \E outcome \in Ended, failed \in BOOLEAN : Finish(c, outcome, failed)
    <2>1. PICK outcome \in Ended : End(c, outcome)
        BY <1>4 DEF Finish
    <2> QED BY <2>1 DEF Next
<1> QED BY <1>1, <1>2, <1>3, <1>4

\* The same of a stream.
LEMMA StreamStepsAtGate ==
    ASSUME Whole, InterceptorStep
    PROVE  Next \/ UNCHANGED gateVars
<1> USE PointsAssumption, InterceptorAssumption
<1> PICK s \in Stream :
        \/ \E m \in Incoming, drifted \in BOOLEAN : Read(s, m, drifted)
        \/ AskForCall(s) \/ CallDenied(s) \/ CallGranted(s) \/ CallCleared(s)
        \/ Forward(s) \/ Deliver(s) \/ Reject(s) \/ EndOfStream(s)
    BY DEF InterceptorStep
<1>1. CASE \/ \E m \in Incoming, drifted \in BOOLEAN : Read(s, m, drifted)
           \/ Forward(s) \/ Deliver(s) \/ Reject(s) \/ EndOfStream(s)
    BY <1>1 DEF Read, Forward, Deliver, Reject, EndOfStream
<1>2. CASE AskForCall(s)
    <2>1. message[s].auth \in Auth
        BY <1>2 DEF Whole, StreamPart, StreamInv, InterceptorTypeOK, Message, AskForCall
    <2>2. Ask(s, message[s].auth) \/ AskInVain(s, message[s].auth)
        BY <1>2 DEF AskForCall
    <2> QED BY <2>1, <2>2 DEF Next
<1>3. CASE CallDenied(s) \/ CallGranted(s) \/ CallCleared(s)
    BY <1>3 DEF CallDenied, CallGranted, CallCleared, Next
<1> QED BY <1>1, <1>2, <1>3

\* Whatever the proxies and interceptors do, and wherever their processes stop, is a
\* behaviour of the gate: none runs an operation the gate did not grant, none takes a
\* grant back, and what holds of every use of the gate holds of theirs.
THEOREM GuardsKeepToTheGate == PointsSpec => Spec
<1>1. PointsInit => Init
    BY DEF PointsInit
<1>2. ASSUME Whole, [PointsNext]_pointVars
      PROVE  [Next]_gateVars
    <2>1. CASE ProxyStep \/ InterceptorStep
        BY <1>2, <2>1, ProxyStepsAtGate, StreamStepsAtGate
    <2>2. CASE \E gone \in SUBSET Caller : gone # {} /\ Stop(gone)
        BY <2>2 DEF Stop, Next
    <2>3. CASE UNCHANGED pointVars
        BY <2>3 DEF pointVars
    <2> QED BY <1>2, <2>1, <2>2, <2>3 DEF PointsNext
<1> QED BY <1>1, <1>2, WholeIsInvariant, PTL DEF PointsSpec, Spec
==============================================================================
