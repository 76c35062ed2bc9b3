-------------------------- MODULE ContainerService --------------------------
(***************************************************************************)
(* ContainerService (container.go): RoleForIP answers "which role, and     *)
(* which credentials, has the container at this address?" from a cache     *)
(* filled by listing and inspecting the running containers, and renewed by *)
(* calling AssumeRole.  Every HTTP request runs RoleForIP in a goroutine   *)
(* of its own; one mutex covers the whole call, its remote calls included. *)
(*                                                                         *)
(* A step of a goroutine is the code between two points where something    *)
(* else can be observed: a remote call, a reading of the clock, the lock.  *)
(***************************************************************************)
EXTENDS Docker, Sequences

CONSTANTS
    Handlers,        \* goroutines that may be serving requests at once
    Nil,             \* Go's nil, and the owner of a free lock
    Roles,           \* well-formed role ARNs
    Assumable,       \* those this instance has permission to assume
    NoRole,          \* the empty RoleArn{}
    EmptyValue,      \* the value of an environment entry "IAM_ROLE="
    Env,             \* per container, the values its IAM_ROLE entries give
    defaultRoleArn,  \* --default-iam-role, NoRole when it is not given
    credentialsRefreshPeriod,  \* 30s: a failed AssumeRole is not retried before
    DurationSeconds, \* 3600s: lifetime of the credentials STS issues
    MaxTime,         \* bound: the clock stops here
    OutageEnd,       \* bound: docker and STS may fail until here
    MaxRestarts      \* bound: crashes of the process

ASSUME ServiceAssumption ==
    /\ Assumable \subseteq Roles
    /\ NoRole \notin Roles
    /\ EmptyValue \notin Roles
    /\ defaultRoleArn \in Roles \cup {NoRole}
    /\ credentialsRefreshPeriod \in Nat
    /\ DurationSeconds \in Nat
    \* An environment is a sequence; its values are strings, NoRole is not.
    /\ \A c \in Containers : /\ Len(Env[c]) \in Nat
                            /\ DOMAIN Env[c] = 1..Len(Env[c])
                            /\ \A i \in DOMAIN Env[c] : Env[c][i] # NoRole
    /\ MaxTime \in Nat /\ OutageEnd \in Nat /\ MaxRestarts \in Nat

VARIABLES
    now,             \* the clock
    restarts,        \* crashes so far
    lock,            \* ContainerService.lock: its holder, or Nil
    containerIPMap,  \* address -> ContainerInfo, Nil where there is none
    containerIDMap,  \* container id -> address, Nil where there is none
    pc,              \* where each goroutine is in RoleForIP
    arg,             \* its argument, and the container waiting for the answer
    scan,            \* locals of syncContainers: ids to inspect, the new maps
    checkedAt,       \* when it last ran RequiresRefresh
    reply            \* what RoleForIP returned, Nil before that

cacheVars == <<containerIPMap, containerIDMap>>
localVars == <<arg, scan, checkedAt, reply>>
vars == <<dockerVars, now, restarts, lock, cacheVars, pc, localVars>>

Addresses == IPs \cup {NoIP}

\* time.Time{}: so long ago that time.Since exceeds every period.
ZeroTime == -(credentialsRefreshPeriod + 1)

Credentials == [role : Roles, expiration : Nat]

ContainerInfo == [id : Containers, lastUpdated : Nat \cup {ZeroTime},
                  err : {"none", "invalidArn", "noRole", "assumeRole"},
                  role : Roles \cup {NoRole}, creds : Credentials \cup {Nil}]

\* What RoleForIP returns: a ContainerRole, or an error and no role.
Reply == [err : {"none", "invalidArn", "noRole", "assumeRole", "notFound", "panic"},
          role : Roles \cup {NoRole}, creds : Credentials \cup {Nil}]

\* A request: the address it came from and the container that waits for the
\* answer, if it is one and still does.
Request == [ip : IPs, who : Containers \cup {Nil}]

\* Nil is none of the values it stands for the lack of.
ASSUME NilAssumption ==
    /\ Nil \notin Handlers \cup Containers \cup IPs \cup {NoIP}
    /\ Nil \notin Credentials
    /\ Nil \notin ContainerInfo
    /\ Nil \notin Request

NoScan == [todo |-> {}, ipMap |-> [a \in Addresses |-> Nil],
           idMap |-> [c \in Containers |-> Nil]]

\* The goroutine is between Lock and the deferred Unlock.
Critical == {"lookup", "list", "inspect", "relookup", "assume"}
-----------------------------------------------------------------------------
\* Wrong on purpose, to see TypeOK fail: the role of a rejected ARN is kept.
NewRoleArnKeepsValue(value) ==
    [role |-> value, err |-> IF value \in Roles THEN "none" ELSE "invalidArn"]

\* RoleArn, as far as the service looks into it: well formed or not.
NewRoleArn(value) ==
    IF value \in Roles THEN [role |-> value, err |-> "none"]
                       ELSE [role |-> NoRole, err |-> "invalidArn"]

\* Wrong on purpose, to see RoleMatchesRequester fail: an ill-formed role is
\* passed over as if it had not been given.
getRoleArnFromEnvLenient(env) ==
    LET set == {i \in DOMAIN env : env[i] \in Roles}
    IN  IF set = {} THEN [role |-> defaultRoleArn, err |-> "none"]
        ELSE NewRoleArn(env[CHOOSE i \in set : \A j \in set : i <= j])

\* The first IAM_ROLE entry with a value decides, be it well formed or not.
getRoleArnFromEnv(env) ==
    LET set == {i \in DOMAIN env : env[i] # EmptyValue}
    IN  IF set = {} THEN [role |-> defaultRoleArn, err |-> "none"]
        ELSE NewRoleArn(env[CHOOSE i \in set : \A j \in set : i <= j])

\* Wrong on purpose, to see DeniedForAReason fail: "no role defined" hides what
\* was wrong with the one that was.
NewContainerInfoHidesError(c) ==
    LET arn == getRoleArnFromEnv(Env[c])
    IN  [id |-> c, lastUpdated |-> ZeroTime, role |-> arn.role, creds |-> Nil,
         err |-> IF arn.role = NoRole THEN "noRole" ELSE arn.err]

\* The entry syncContainers makes for a container.
NewContainerInfo(c) ==
    LET arn == getRoleArnFromEnv(Env[c])
    IN  [id |-> c, lastUpdated |-> ZeroTime, role |-> arn.role, creds |-> Nil,
         err |-> IF arn.role = NoRole /\ arn.err = "none" THEN "noRole" ELSE arn.err]

ExpiredNow(creds) == now > creds.expiration

\* Wrong on purpose, to see RepliesUsable fail: credentials are renewed but never
\* fetched a first time.
RequiresRefreshIfExpired(info) ==
    info.role # NoRole /\ info.creds # Nil /\ ExpiredNow(info.creds)

\* Wrong on purpose, to see RepliesUnexpired fail: credentials are fetched but
\* never renewed.
RequiresRefreshIfMissing(info) ==
    /\ info.role # NoRole
    /\ info.creds = Nil
    /\ now - info.lastUpdated > credentialsRefreshPeriod

\* Wrong on purpose, to see Recovers fail: a failed attempt is never repeated.
RequiresRefreshOnce(info) ==
    /\ info.role # NoRole
    /\ IF info.creds # Nil THEN ExpiredNow(info.creds) ELSE info.lastUpdated = ZeroTime

\* Wrong on purpose, to see ImplementsRoleCache fail: a failed attempt is repeated
\* when the period ends, not after it.
RequiresRefreshEarly(info) ==
    /\ info.role # NoRole
    /\ IF info.creds # Nil THEN ExpiredNow(info.creds)
       ELSE now - info.lastUpdated >= credentialsRefreshPeriod

RequiresRefresh(info) ==
    /\ info.role # NoRole
    /\ IF info.creds # Nil THEN ExpiredNow(info.creds)
       ELSE now - info.lastUpdated > credentialsRefreshPeriod

ReplyFrom(info) ==
    IF info.err = "none" THEN [err |-> "none", role |-> info.role, creds |-> info.creds]
                         ELSE [err |-> info.err, role |-> NoRole, creds |-> Nil]

ErrorReply(e) == [err |-> e, role |-> NoRole, creds |-> Nil]

\* A remote call may fail, or answer with something unusable.
Failing == now < OutageEnd
-----------------------------------------------------------------------------
Init ==
    /\ DockerInit
    /\ now = 0
    /\ restarts = 0
    /\ lock = Nil
    /\ containerIPMap = NoScan.ipMap
    /\ containerIDMap = NoScan.idMap
    /\ pc = [h \in Handlers |-> "idle"]
    /\ arg = [h \in Handlers |-> Nil]
    /\ scan = [h \in Handlers |-> NoScan]
    /\ checkedAt = [h \in Handlers |-> 0]
    /\ reply = [h \in Handlers |-> Nil]

Goto(h, from, to) == pc[h] = from /\ pc' = [pc EXCEPT ![h] = to]

\* Wrong on purpose, to see EveryCallReturns fail: Unlock is not deferred, so that
\* a panic leaves the lock held.
FinishLocked(h, r) ==
    /\ pc' = [pc EXCEPT ![h] = "done"]
    /\ reply' = [reply EXCEPT ![h] = r]
    /\ lock' = IF r.err = "panic" THEN lock ELSE Nil

\* RoleForIP returns r; the deferred Unlock runs, in a panic too.
Finish(h, r) ==
    /\ pc' = [pc EXCEPT ![h] = "done"]
    /\ reply' = [reply EXCEPT ![h] = r]
    /\ lock' = Nil

Entry(h) == containerIPMap[arg[h].ip]

\* Who may send a request from address a: the container that has it, or else a
\* process outside docker, Nil.
Senders(a) == IF Owners(a) = {} THEN {Nil} ELSE Owners(a)

Call(h, a) ==
    /\ Goto(h, "idle", "lock")
    /\ \E w \in Senders(a) : arg' = [arg EXCEPT ![h] = [ip |-> a, who |-> w]]
    /\ UNCHANGED <<dockerVars, now, restarts, lock, cacheVars, scan, checkedAt, reply>>

\* Wrong on purpose, to see LockHeld and NoEarlyRefresh fail: no mutual exclusion.
AcquireAnyway(h) ==
    /\ Goto(h, "lock", "lookup")
    /\ lock' = h
    /\ UNCHANGED <<dockerVars, now, restarts, cacheVars, localVars>>

Acquire(h) ==
    /\ Goto(h, "lock", "lookup")
    /\ lock = Nil
    /\ lock' = h
    /\ UNCHANGED <<dockerVars, now, restarts, cacheVars, localVars>>

\* The address is known and its entry good: answer from it.
Cached(h) ==
    /\ pc[h] \in {"lookup", "relookup"}
    /\ Entry(h) # Nil
    /\ ~RequiresRefresh(Entry(h))
    /\ checkedAt' = [checkedAt EXCEPT ![h] = now]
    /\ Finish(h, ReplyFrom(Entry(h)))
    /\ UNCHANGED <<dockerVars, now, restarts, cacheVars, arg, scan>>

\* The address is known and its entry due: call AssumeRole.
Due(h) ==
    /\ pc[h] \in {"lookup", "relookup"}
    /\ Entry(h) # Nil
    /\ RequiresRefresh(Entry(h))
    /\ checkedAt' = [checkedAt EXCEPT ![h] = now]
    /\ pc' = [pc EXCEPT ![h] = "assume"]
    /\ UNCHANGED <<dockerVars, now, restarts, lock, cacheVars, arg, scan, reply>>

Miss(h) ==
    /\ Goto(h, "lookup", "list")
    /\ Entry(h) = Nil
    /\ UNCHANGED <<dockerVars, now, restarts, lock, cacheVars, localVars>>

NotFound(h) ==
    /\ pc[h] = "relookup"
    /\ Entry(h) = Nil
    /\ Finish(h, ErrorReply("notFound"))
    /\ UNCHANGED <<dockerVars, now, restarts, cacheVars, arg, scan, checkedAt>>

ListContainers(h) ==
    /\ Goto(h, "list", "inspect")
    /\ scan' = [scan EXCEPT ![h] = [NoScan EXCEPT !.todo = running]]
    /\ UNCHANGED <<dockerVars, now, restarts, lock, cacheVars, arg, checkedAt, reply>>

ListContainersFails(h) ==
    /\ Failing
    /\ Goto(h, "list", "relookup")
    /\ UNCHANGED <<dockerVars, now, restarts, lock, cacheVars, localVars>>

\* Inspect one of the listed containers (in the order docker listed them, which
\* is any order) and record it under the address it has by now.
InspectContainer(h, c) ==
    /\ pc[h] = "inspect"
    /\ c \in scan[h].todo
    /\ scan' = [scan EXCEPT ![h] =
                  [todo  |-> @.todo \ {c},
                   ipMap |-> [@.ipMap EXCEPT ![address[c]] = NewContainerInfo(c)],
                   idMap |-> [@.idMap EXCEPT ![c] = address[c]]]]
    /\ UNCHANGED <<dockerVars, now, restarts, lock, cacheVars, pc, arg, checkedAt, reply>>

\* docker fails, or the container has been removed: skip it.
InspectContainerFails(h, c) ==
    /\ Failing \/ c \notin running
    /\ pc[h] = "inspect"
    /\ c \in scan[h].todo
    /\ scan' = [scan EXCEPT ![h].todo = @ \ {c}]
    /\ UNCHANGED <<dockerVars, now, restarts, lock, cacheVars, pc, arg, checkedAt, reply>>

\* docker's answer lacks a part that is used without a check (an id of six
\* characters, NetworkSettings, Config, Name): a run-time panic, which
\* logHandler recovers above RoleForIP.
InspectContainerPanics(h) ==
    /\ Failing
    /\ pc[h] = "inspect"
    /\ scan[h].todo # {}
    /\ scan' = [scan EXCEPT ![h] = NoScan]
    /\ Finish(h, ErrorReply("panic"))
    /\ UNCHANGED <<dockerVars, now, restarts, cacheVars, arg, checkedAt>>

\* All listed containers are inspected: the new maps replace the old ones.
SyncDone(h) ==
    /\ Goto(h, "inspect", "relookup")
    /\ scan[h].todo = {}
    /\ containerIPMap' = scan[h].ipMap
    /\ containerIDMap' = scan[h].idMap
    /\ scan' = [scan EXCEPT ![h] = NoScan]
    /\ UNCHANGED <<dockerVars, now, restarts, lock, arg, checkedAt, reply>>

\* Wrong on purpose, to see CacheConsistent fail: a failed renewal leaves the old
\* credentials beside the error.
OutcomeKeepsOld(info, creds, err) ==
    [info EXCEPT !.lastUpdated = now, !.err = err,
                 !.creds = IF creds = Nil THEN @ ELSE creds]

\* The entry once AssumeRole's outcome is recorded in it.
Outcome(info, creds, err) ==
    [info EXCEPT !.lastUpdated = now, !.err = err, !.creds = creds]

\* AssumeRole returned: record the outcome and answer from it.
Refresh(h, creds, err) ==
    LET info == Outcome(Entry(h), creds, err)
    IN  /\ pc[h] = "assume"
        /\ containerIPMap' = [containerIPMap EXCEPT ![arg[h].ip] = info]
        /\ Finish(h, ReplyFrom(info))
        /\ UNCHANGED <<dockerVars, now, restarts, containerIDMap, arg, scan, checkedAt>>

\* STS issued the credentials at some moment of the call.
AssumeRole(h) ==
    /\ pc[h] = "assume"
    /\ Entry(h).role \in Assumable
    /\ \E t \in checkedAt[h]..now :
         Refresh(h, [role |-> Entry(h).role, expiration |-> t + DurationSeconds], "none")

AssumeRoleFails(h) ==
    /\ pc[h] = "assume"
    /\ Failing \/ Entry(h).role \notin Assumable
    /\ Refresh(h, Nil, "assumeRole")

\* The caller takes the reply.
Return(h) ==
    /\ Goto(h, "done", "idle")
    /\ arg' = [arg EXCEPT ![h] = Nil]
    /\ checkedAt' = [checkedAt EXCEPT ![h] = 0]
    /\ reply' = [reply EXCEPT ![h] = Nil]
    /\ UNCHANGED <<dockerVars, now, restarts, lock, cacheVars, scan>>

\* The process dies and is started again: nothing is persisted.
Restart ==
    /\ restarts < MaxRestarts
    /\ restarts' = restarts + 1
    /\ lock' = Nil
    /\ containerIPMap' = NoScan.ipMap
    /\ containerIDMap' = NoScan.idMap
    /\ pc' = [h \in Handlers |-> "idle"]
    /\ arg' = [h \in Handlers |-> Nil]
    /\ scan' = [h \in Handlers |-> NoScan]
    /\ checkedAt' = [h \in Handlers |-> 0]
    /\ reply' = [h \in Handlers |-> Nil]
    /\ UNCHANGED <<dockerVars, now>>

Tick ==
    /\ now < MaxTime
    /\ now' = now + 1
    /\ UNCHANGED <<dockerVars, restarts, lock, cacheVars, pc, localVars>>

\* A container that stops waits for its answers no more.
DockerStep ==
    /\ DockerNext
    /\ arg' = [h \in Handlers |->
                 IF arg[h] = Nil \/ arg[h].who \in running' THEN arg[h]
                                                          ELSE [arg[h] EXCEPT !.who = Nil]]
    /\ UNCHANGED <<now, restarts, lock, cacheVars, pc, scan, checkedAt, reply>>

\* What a goroutine does by itself once it has the lock.
Step(h) ==
    \/ Cached(h) \/ Due(h) \/ Miss(h) \/ NotFound(h)
    \/ ListContainers(h) \/ ListContainersFails(h)
    \/ \E c \in Containers : InspectContainer(h, c) \/ InspectContainerFails(h, c)
    \/ InspectContainerPanics(h) \/ SyncDone(h)
    \/ AssumeRole(h) \/ AssumeRoleFails(h)
    \/ Return(h)

Next ==
    \/ \E h \in Handlers : \/ \E a \in IPs : Call(h, a)
                           \/ Acquire(h)
                           \/ Step(h)
    \/ DockerStep
    \/ Tick
    \/ Restart

Spec == Init /\ [][Next]_vars

\* docker and STS answer every call, in time or with an error (neither client
\* sets a timeout); a goroutine that waits for a lock freed again and again gets
\* it; the clock goes on to its bound.  Nobody has to send requests.
Fairness ==
    /\ \A h \in Handlers : WF_vars(Step(h)) /\ SF_vars(Acquire(h))
    /\ WF_vars(Tick)

FairSpec == Spec /\ Fairness
-----------------------------------------------------------------------------
ScanType == [todo : SUBSET Containers,
             ipMap : [Addresses -> ContainerInfo \cup {Nil}],
             idMap : [Containers -> Addresses \cup {Nil}]]

TypeOK ==
    /\ DockerTypeOK
    /\ now \in Nat
    /\ restarts \in Nat
    /\ lock \in Handlers \cup {Nil}
    /\ containerIPMap \in [Addresses -> ContainerInfo \cup {Nil}]
    /\ containerIDMap \in [Containers -> Addresses \cup {Nil}]
    /\ pc \in [Handlers -> Critical \cup {"idle", "lock", "done"}]
    /\ arg \in [Handlers -> Request \cup {Nil}]
    /\ scan \in [Handlers -> ScanType]
    /\ checkedAt \in [Handlers -> Nat]
    /\ reply \in [Handlers -> Reply \cup {Nil}]

\* One goroutine at a time is between Lock and Unlock (container.go:73-74), the
\* one the mutex names; every way out of RoleForIP, a panic too, has released it.
LockHeld == \A h \in Handlers : pc[h] \in Critical <=> lock = h

\* What RoleForIP relies on in an entry, and restores although it overwrites the
\* fields one by one (container.go:86-88): an error excludes credentials, the
\* credentials are those of the entry's role and no newer than LastUpdated, an
\* entry without a role says why, and one with neither error nor credentials has
\* never been tried, so that it is still due.
EntryConsistent(info) ==
    /\ info.role = NoRole <=> info.err \in {"invalidArn", "noRole"}
    /\ info.lastUpdated <= now
    /\ info.creds # Nil =>
         /\ info.err = "none"
         /\ info.creds.role = info.role
         /\ info.creds.expiration <= info.lastUpdated + DurationSeconds
    /\ info.err = "none" /\ info.creds = Nil => info.lastUpdated = ZeroTime

CacheConsistent ==
    \A a \in Addresses :
      containerIPMap[a] # Nil =>
        /\ EntryConsistent(containerIPMap[a])
        /\ containerIDMap[containerIPMap[a].id] = a

Done(h) == pc[h] = "done"

\* A reply without error carries the credentials of its role: main.go:220-223
\* dereferences them without a check.
RepliesUsable ==
    \A h \in Handlers :
      Done(h) /\ reply[h].err = "none" =>
        reply[h].creds # Nil /\ reply[h].creds.role = reply[h].role

\* Credentials that had already expired when RoleForIP looked at them are never
\* handed out, however long AssumeRole took (container.go:40-41, 82-88).
RepliesUnexpired ==
    \A h \in Handlers :
      Done(h) /\ reply[h].creds # Nil => reply[h].creds.expiration >= checkedAt[h]

\* v is what container c asks for: its first non-empty IAM_ROLE entry, the default
\* role only if it has none (README.md, "Container Role").
Declares(c, v) ==
    \/ \E i \in DOMAIN Env[c] : /\ Env[c][i] = v
                                /\ v # EmptyValue
                                /\ \A j \in 1..(i - 1) : Env[c][j] = EmptyValue
    \/ /\ \A i \in DOMAIN Env[c] : Env[c][i] = EmptyValue
       /\ v = defaultRoleArn

\* A container gets credentials of the role it declares and of no other, although
\* its address is all the service knows of it (container.go:99).
RoleMatchesRequester ==
    \A h \in Handlers :
      Done(h) /\ arg[h].who # Nil /\ reply[h].creds # Nil =>
        Declares(arg[h].who, reply[h].role)

\* A container is refused for what is wrong with its own declaration: never as
\* ill-formed or undeclared when it declares a role, and the role that could not
\* be assumed is one it declares.
DeniedForAReason ==
    \A h \in Handlers :
      Done(h) /\ arg[h].who # Nil =>
        LET Asks(S) == \E v \in S : Declares(arg[h].who, v)
        IN  /\ reply[h].err = "noRole" => Asks({NoRole})
            /\ reply[h].err = "invalidArn" => ~Asks(Roles \cup {NoRole})
            /\ reply[h].err = "assumeRole" => Asks(Roles)

\* AssumeRole's outcome replaces one that had lapsed and nothing else: of several
\* goroutines that find the same entry due one renews it and the others use what
\* it got, and a failure is not retried within the period (container.go:40-44).
Lapsed(info) ==
    \/ info.creds # Nil /\ now > info.creds.expiration
    \/ info.creds = Nil /\ now > info.lastUpdated + credentialsRefreshPeriod

Renewed(a) ==
    /\ containerIPMap[a] # Nil /\ containerIPMap'[a] # Nil
    /\ containerIPMap'[a] # containerIPMap[a]
    /\ containerIPMap'[a].lastUpdated # ZeroTime

NoEarlyRefresh == [][\A a \in Addresses : Renewed(a) => Lapsed(containerIPMap[a])]_vars

\* Every request is answered: no order of calls, failures and panics leaves the
\* lock held (or the process dies, and the request with it).
EveryCallReturns == \A h \in Handlers : pc[h] = "lock" ~> pc[h] \in {"done", "idle"}

\* However docker and STS failed before, a container that stays up, may have the
\* role it declares and keeps asking gets credentials again and again.
Recovers ==
    \A c \in Containers :
      LET asks   == \E h \in Handlers : pc[h] = "lock" /\ arg[h].who = c
          served == \E h \in Handlers : Done(h) /\ arg[h].who = c /\ reply[h].creds # Nil
      IN  (\E r \in Assumable : Declares(c, r))
            => ((<>[](c \in running) /\ []<>asks) => []<>served)
=============================================================================
