CONSTANTS
    h1 = h1 h2 = h2
    c1 = c1 c2 = c2 c3 = c3 c4 = c4
    a1 = a1 a2 = a2
    r1 = r1 r2 = r2
    bad = bad empty = empty
    Nil = Nil NoIP = NoIP NoRole = NoRole EmptyValue = empty
    Handlers = {h1, h2}
    IPs = {a1, a2}
    Roles = {r1, r2}
    Env <- EnvMixed
    credentialsRefreshPeriod = 1
    DurationSeconds = 1
    Containers = {c1, c3}
    HostNetworked = {}
    ReuseAddresses = TRUE
    Assumable = {r1, r2}
    defaultRoleArn = r2
    MaxTime = 1
    OutageEnd = 0
    MaxRestarts = 0
SPECIFICATION Spec
INVARIANTS
    RoleMatchesRequester
