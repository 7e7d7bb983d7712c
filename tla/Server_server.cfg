\* A proxy, two addresses outside, one forged entry and two hops; an origin of
\* ours, a foreign one, the API's own and null; two readiness checks; a
\* probe's deadline is one tick, the shutdown's two.
SPECIFICATION FairServerSpec
CONSTANTS
    client = client
    victim = victim
    proxy = proxy
    garbage = garbage
    Addrs = {client, victim, proxy}
    Trusted = {proxy}
    Spellings <- TheSpellings
    Parse <- TheParse
    NoAddr = NoAddr
    Blank = Blank
    MaxForged = 1
    MaxHops = 2
    Self = self
    Null = null
    NoOrigin = NoOrigin
    WebOrigins = {web}
    Origins = {web, foreign, self, null}
    Environments <- TheEnvironments
    Checks = {postgres, r2}
    NoCheck = NoCheck
    ReadinessTimeout = 1
    ShutdownTimeout = 2
INVARIANTS
    AddressIsReal
    OnlyOurPagesChangeState
    GrantsFitTheirPage
    ReportIsComplete
    ProbesNeverSpoilShutdown
PROPERTIES
    ProbeAnswered
    SignalEndsProcess
CHECK_DEADLOCK FALSE
