SPECIFICATION FairSpec
CONSTANTS
    h1 = h1  h2 = h2  a1 = a1  a2 = a2  c1 = c1  c2 = c2  r1 = r1  r2 = r2
    Handlers = {h1, h2}
    IPs = {a1}
    Containers = {c1, c2}
    Roles = {r1, r2}
    Refusals = {"noRole"}
    Verdict <- VerdictMixed
    Assumable = {r1}
    Period = 1
    Lifetime = 1
    Never <- NeverTime
    Nil = Nil
    UpstreamStatus <- Statuses
    MaxTime = 1
INVARIANTS TypeOK LoggedAsSent AnswersFit
PROPERTY EveryRequestAnswered
CHECK_DEADLOCK FALSE
