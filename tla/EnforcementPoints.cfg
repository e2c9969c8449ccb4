SPECIFICATION PointsSpec
CONSTANTS
    p1 = p1  p2 = p2  s1 = s1  secret = secret  clean = clean  bad = bad
    once = once  often = often  k1 = k1  t1 = t1  t2 = t2
    NoAuth = NoAuth  NoArgs = NoArgs  NoFunction = NoFunction  NoAuthorization = NoAuthorization
    Caller <- MCCaller
    Auth <- MCAuth
    Key <- MCKey
    KeyOf <- MCKeyOf
    SingleUse <- MCSingleUse
    Proxied <- MCProxied
    Args <- MCArgs
    Redacted <- MCRedacted
    Offending <- MCOffending
    BoundTo <- MCBoundTo
    Demanding = {}
    Gated <- MCProxied
    Renewing = {p1}
    Stream <- MCStream
    FromClient <- MCStream
    Enforcing <- MCStream
    Guarded <- MCStream
    WithLock <- MCStream
    WithErrorOut <- MCStream
    WithHook <- MCStream
    Tool <- MCTool
    Incoming <- MCIncoming
    LockedTool <- MCLocked
INVARIANTS PointsInv RunsWhatWasBound SpentIsDelivered UsedOnce
