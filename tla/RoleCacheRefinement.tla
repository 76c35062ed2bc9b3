------------------------ MODULE RoleCacheRefinement ------------------------
(***************************************************************************)
(* ContainerService implements RoleCache: what a goroutine does between    *)
(* taking and releasing the lock appears to callers as one step.           *)
(***************************************************************************)
EXTENDS ContainerService

\* What a container is entitled to, from its environment alone.
verdict == [c \in Containers |->
              LET info == NewContainerInfo(c)
              IN  IF info.role # NoRole THEN info.role ELSE info.err]

\* An entry of the map, without what follows from its container.
absEntry(info) ==
    [owner      |-> info.id,
     expiration |-> IF info.creds = Nil THEN Nil ELSE info.creds.expiration,
     renewed    |-> info.lastUpdated]

AbsAnswer == [what : Roles \cup {NoRole, "noRole", "invalidArn", "assumeRole", "notFound", "panic"},
              expiration : Nat \cup {Nil}]

absAnswer(r) ==
    [what       |-> IF r.err = "none" THEN r.role ELSE r.err,
     expiration |-> IF r.creds = Nil THEN Nil ELSE r.creds.expiration]

absCache == [a \in IPs |-> IF containerIPMap[a] = Nil THEN Nil
                           ELSE absEntry(containerIPMap[a])]

absRequest == [h \in Handlers |-> IF pc[h] = "idle" THEN Nil ELSE arg[h].ip]

absReply == [h \in Handlers |-> IF Done(h) THEN absAnswer(reply[h]) ELSE Nil]

RC == INSTANCE RoleCache WITH
        Clients <- Handlers, Refusals <- {"noRole", "invalidArn"}, Verdict <- verdict,
        Period <- credentialsRefreshPeriod, Lifetime <- DurationSeconds,
        Never <- ZeroTime, cache <- absCache, request <- absRequest, answer <- absReply

\* Nil is none of what it stands for the lack of there; no role is a refusal.
ASSUME RefinementAssumption ==
    /\ Nil \notin Int
    /\ Nil \notin RC!Entry
    /\ Nil \notin AbsAnswer
    /\ Roles \cap {"noRole", "invalidArn"} = {}

\* RoleForIP behaves as if it were atomic: every answer is the entry of the moment
\* it is given, no renewal or failed attempt is lost, made twice or made early, and
\* only a miss replaces the table (container.go:72-164).
ImplementsRoleCache == RC!Spec
=============================================================================
