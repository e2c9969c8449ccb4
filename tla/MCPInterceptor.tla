----------------------------- MODULE MCPInterceptor -----------------------------
(***************************************************************************)
(* Interceptor.InspectMessage and RunStream of                             *)
(* internal/mcpinterceptor/interceptor.go in front of the execution        *)
(* gateways: one message after the other is read from a stream, rejected   *)
(* with an error frame or passed on to the hook and to the other side.     *)
(*                                                                         *)
(* A member of Stream is a run of RunStream; a message is its kind, the    *)
(* tool it calls and the authorization it brings.                          *)
(***************************************************************************)
EXTENDS AuthorizationGate

CONSTANTS
    Stream,       \* the callers that are streams
    FromClient,   \* the streams whose messages come from the client
    Enforcing,    \* those in enforceMode
    Guarded,      \* those with MandatoryAuth or a Gateway
    WithLock,     \* those with a surface lock that names tools
    WithErrorOut, WithHook,
    Tool,
    LockedTool,   \* the tools of the surface lock
    Incoming,     \* the messages that may be read
    NoAuthorization

VARIABLES
    reader,     \* where each stream is
    message,    \* the message it is dealing with or dealt with last
    cleared,    \* history: the streams whose message was granted by a gateway
    seen        \* history: who has seen what of the message

interceptorVars == <<reader, message, cleared, seen>>

Reader == {"reading", "ask", "gate", "forward", "write", "reject", "ended"}
Sight == {"hook", "server", "errorToServer", "errorOut"}
\* "unparsable" stands for what enforceMode rejects before the method is looked at: no
\* JSON, another version, a request without a method; "badcall" for a tools/call whose
\* parameters are malformed.
Message == [kind : {"unparsable", "other", "badcall", "call"}, tool : Tool,
            auth : Auth \cup {NoAuthorization}]

ASSUME InterceptorAssumption ==
    /\ Stream \subseteq Caller /\ NoAuthorization \notin Auth
    /\ Guarded \subseteq Enforcing /\ Enforcing \cup FromClient \subseteq Stream
    /\ Incoming \subseteq Message /\ Incoming # {}

InterceptorInit ==
    /\ reader = [s \in Stream |-> "reading"]
    /\ message \in [Stream -> {m \in Incoming : m.kind = "unparsable"}]
    /\ cleared = {}
    /\ seen = [s \in Stream |-> {}]

\* Where InspectMessage takes a message: the checks of parsing, of the parameters, of
\* the surface lock, of the live schema against it (drifted).
Route(s, m, drifted) ==
    IF m.kind = "unparsable" THEN IF s \in Enforcing THEN "reject" ELSE "write"
    ELSE IF s \notin FromClient THEN "write"
    ELSE IF m.kind = "other" THEN "forward"
    ELSE IF m.kind = "badcall" THEN "reject"
    ELSE IF s \in Enforcing /\ (s \notin WithLock \/ m.tool \notin LockedTool \/ drifted) THEN "reject"
    ELSE IF s \notin Guarded THEN "forward"
    ELSE IF m.auth = NoAuthorization THEN "reject"
    ELSE "ask"

\* The message is a tool call that needs an authorization.
GuardedCall(s) == s \in Guarded \cap FromClient /\ message[s].kind = "call"

Move(s, place) == reader' = [reader EXCEPT ![s] = place]

Read(s, m, drifted) ==
    /\ reader[s] = "reading"
    /\ message' = [message EXCEPT ![s] = m]
    /\ cleared' = cleared \ {s}
    /\ seen' = [seen EXCEPT ![s] = {}]
    /\ Move(s, Route(s, m, drifted))
    /\ UNCHANGED gateVars

\* ValidateAuthorization, whose first checks may deny at once.
AskForCall(s) ==
    /\ reader[s] = "ask"
    /\ \/ Ask(s, message[s].auth) /\ Move(s, "gate")
       \/ AskInVain(s, message[s].auth) /\ Move(s, "reject")
    /\ UNCHANGED <<message, cleared, seen>>

CallDeniedForwards(s) ==     \* mutant: a denied call is forwarded
    /\ reader[s] = "gate" /\ Deny(s)
    /\ Move(s, "forward")
    /\ UNCHANGED <<message, cleared, seen>>

CallDenied(s) ==
    /\ reader[s] = "gate" /\ Deny(s)
    /\ Move(s, "reject")
    /\ UNCHANGED <<message, cleared, seen>>

CallGranted(s) ==
    /\ reader[s] = "gate" /\ Grant(s)
    /\ cleared' = cleared \cup {s}
    /\ UNCHANGED <<reader, message, seen>>

\* ValidateAuthorization returns.
CallCleared(s) ==
    /\ reader[s] = "gate" /\ Leave(s)
    /\ Move(s, "forward")
    /\ UNCHANGED <<message, cleared, seen>>

Show(s, sight) == seen' = [seen EXCEPT ![s] = @ \cup {sight}]

ForwardOrReject(s) ==        \* mutant: an error of OnForward is answered with an error frame
    /\ reader[s] = "forward"
    /\ IF s \in WithHook
       THEN \/ Show(s, "hook") /\ Move(s, "write")
            \/ UNCHANGED seen /\ Move(s, "reject")
       ELSE UNCHANGED seen /\ Move(s, "write")
    /\ UNCHANGED <<gateVars, message, cleared>>

\* OnForward, whose error ends the stream.
Forward(s) ==
    /\ reader[s] = "forward"
    /\ IF s \in WithHook
       THEN \/ Show(s, "hook") /\ Move(s, "write")
            \/ UNCHANGED seen /\ Move(s, "ended")
       ELSE UNCHANGED seen /\ Move(s, "write")
    /\ UNCHANGED <<gateVars, message, cleared>>

Deliver(s) ==
    /\ reader[s] = "write"
    /\ \/ Show(s, "server") /\ Move(s, "reading")
       \/ UNCHANGED seen /\ Move(s, "ended")
    /\ UNCHANGED <<gateVars, message, cleared>>

\* The error frame goes to ErrorOut, and without one in the message's place.
Reject(s) ==
    /\ reader[s] = "reject"
    /\ \/ /\ Show(s, IF s \in WithErrorOut THEN "errorOut" ELSE "errorToServer")
          /\ Move(s, "reading")
       \/ UNCHANGED seen /\ Move(s, "ended")
    /\ UNCHANGED <<gateVars, message, cleared>>

\* The end of the input.
EndOfStream(s) ==
    /\ reader[s] = "reading"
    /\ Move(s, "ended")
    /\ UNCHANGED <<gateVars, message, cleared, seen>>

StreamsStop(gone) ==
    /\ reader' = [s \in Stream |-> IF s \in gone THEN "ended" ELSE reader[s]]
    /\ UNCHANGED <<message, cleared, seen>>

InterceptorStep ==
    \E s \in Stream :
        \/ \E m \in Incoming, drifted \in BOOLEAN : Read(s, m, drifted)
        \/ AskForCall(s) \/ CallDenied(s) \/ CallGranted(s) \/ CallCleared(s)
        \/ Forward(s) \/ Deliver(s) \/ Reject(s) \/ EndOfStream(s)

-----------------------------------------------------------------------------
(* Properties *)

InterceptorTypeOK ==
    /\ reader \in [Stream -> Reader]
    /\ message \in [Stream -> Message]
    /\ cleared \subseteq Stream
    /\ seen \in [Stream -> SUBSET Sight]

\* Of a tool call on a guarded stream the server and the hook see nothing unless a
\* gateway granted it; a call that was granted, whose single-use nonce is therefore
\* spent, is never answered with an error frame, and is delivered before the next
\* message is read (interceptor.go:74-78, 318-328, 343-361).
SpentIsDelivered ==
    \A s \in Stream : GuardedCall(s) =>
        /\ seen[s] \cap {"hook", "server"} # {} => s \in cleared
        /\ s \in cleared => seen[s] \cap {"errorOut", "errorToServer"} = {}
        /\ s \in cleared /\ reader[s] = "reading" => "server" \in seen[s]
==============================================================================
