----------------------- MODULE ContainerServiceProofs -----------------------
(***************************************************************************)
(* Safety of ContainerService for any number of goroutines, containers,    *)
(* addresses and roles, any environments, periods and bounds, and that it  *)
(* implements RoleCache.                                                   *)
(***************************************************************************)
EXTENDS RoleCacheRefinement, WellFoundedInduction, TLAPS

\* A non-empty set of natural numbers has a least element.
LEMMA LeastNat ==
    ASSUME NEW S, S \subseteq Nat, S # {}
    PROVE  \E m \in S : \A j \in S : m <= j
<1>1. PICK m \in S : \A j \in S : ~(<<j, m>> \in OpToRel(<, Nat))
  BY NatLessThanWellFounded, WFMin
<1>2. \A j \in S : ~(j < m)
  BY <1>1 DEF OpToRel
<1> QED  BY <1>2

\* getRoleArnFromEnv's answer for a container: a role it declares, or an error
\* and then no role, because what it declares is not one.
LEMMA EnvRole ==
    ASSUME NEW c \in Containers
    PROVE  LET arn == getRoleArnFromEnv(Env[c])
           IN  \/ arn.err = "none" /\ arn.role \in Roles \cup {NoRole}
                                   /\ Declares(c, arn.role)
               \/ arn.err = "invalidArn" /\ arn.role = NoRole
                    /\ \A v \in Roles \cup {NoRole} : ~Declares(c, v)
<1> DEFINE set == {i \in DOMAIN Env[c] : Env[c][i] # EmptyValue}
<1>1. /\ Len(Env[c]) \in Nat
      /\ DOMAIN Env[c] = 1..Len(Env[c])
      /\ \A i \in DOMAIN Env[c] : Env[c][i] # NoRole
  BY ServiceAssumption
<1>2. CASE set = {}
  <2>1. getRoleArnFromEnv(Env[c]) = [role |-> defaultRoleArn, err |-> "none"]
    BY <1>2 DEF getRoleArnFromEnv
  <2>2. Declares(c, defaultRoleArn)
    BY <1>2 DEF Declares
  <2> QED  BY <2>1, <2>2, ServiceAssumption
<1>3. CASE set # {}
  <2> DEFINE m == CHOOSE i \in set : \A j \in set : i <= j
  <2>1. m \in set /\ \A j \in set : m <= j
    <3>1. set \subseteq Nat
      BY <1>1
    <3>2. \E i \in set : \A j \in set : i <= j
      BY <1>3, <3>1, LeastNat
    <3> QED  BY <3>2
  <2>2. getRoleArnFromEnv(Env[c]) = NewRoleArn(Env[c][m])
    BY <1>3 DEF getRoleArnFromEnv
  <2>3. \A v : Declares(c, v) => v = Env[c][m]
    <3>1. \A i \in DOMAIN Env[c] :
            Env[c][i] # EmptyValue /\ (\A j \in 1..(i - 1) : Env[c][j] = EmptyValue) => i = m
      <4> SUFFICES ASSUME NEW i \in DOMAIN Env[c], Env[c][i] # EmptyValue,
                          \A j \in 1..(i - 1) : Env[c][j] = EmptyValue
                   PROVE  i = m
        OBVIOUS
      <4>1. i \in set /\ i \in Nat /\ m \in Nat /\ m >= 1
        BY <1>1, <2>1
      <4>2. m <= i
        BY <2>1, <4>1
      <4>3. ~(m < i)
        <5>1. Env[c][m] # EmptyValue
          BY <2>1
        <5> HIDE DEF m
        <5> QED  BY <4>1, <5>1
      <4> HIDE DEF m
      <4> QED  BY <4>1, <4>2, <4>3
    <3> QED  BY <1>3, <3>1 DEF Declares
  <2>4. Declares(c, Env[c][m])
    <3>1. \A j \in 1..(m - 1) : Env[c][j] = EmptyValue
      <4> SUFFICES ASSUME NEW j \in 1..(m - 1)  PROVE Env[c][j] = EmptyValue
        OBVIOUS
      <4>1. m \in 1..Len(Env[c])
        BY <1>1, <2>1
      <4>2. j \in DOMAIN Env[c] /\ ~(m <= j)
        <5> HIDE DEF m
        <5> QED  BY <1>1, <4>1
      <4> QED  BY <2>1, <4>2
    <3> QED  BY <2>1, <3>1 DEF Declares
  <2>5. Env[c][m] # NoRole
    BY <1>1, <2>1
  <2> HIDE DEF m
  <2>6. CASE Env[c][m] \in Roles
    BY <2>2, <2>4, <2>6 DEF NewRoleArn
  <2>7. CASE Env[c][m] \notin Roles
    BY <2>2, <2>3, <2>5, <2>7 DEF NewRoleArn
  <2> QED  BY <2>6, <2>7
<1> QED  BY <1>2, <1>3
-----------------------------------------------------------------------------
\* A new entry, and a reply made from an entry, have their types.
LEMMA NewInfoType ==
    ASSUME NEW c \in Containers
    PROVE  /\ NewContainerInfo(c) \in ContainerInfo
           /\ NewContainerInfo(c).id = c
           /\ NewContainerInfo(c).creds = Nil
           /\ NewContainerInfo(c).lastUpdated = ZeroTime
           /\ NewContainerInfo(c).err \in {"none", "invalidArn", "noRole"}
           /\ NewContainerInfo(c).role = NoRole
                <=> NewContainerInfo(c).err \in {"invalidArn", "noRole"}
           /\ NewContainerInfo(c).role # NoRole => Declares(c, NewContainerInfo(c).role)
           /\ NewContainerInfo(c).err = "noRole" => Declares(c, NoRole)
           /\ NewContainerInfo(c).err = "invalidArn" =>
                \A v \in Roles \cup {NoRole} : ~Declares(c, v)
BY EnvRole, ServiceAssumption DEF NewContainerInfo, ContainerInfo

\* An entry of the cache makes a reply.
LEMMA ReplyFromType ==
    ASSUME NEW info \in ContainerInfo
    PROVE  ReplyFrom(info) \in Reply
BY DEF ReplyFrom, ContainerInfo, Reply

\* A goroutine that does not sync has an empty scan.
LEMMA NoScanType == NoScan \in ScanType
BY DEF NoScan, ScanType

\* A goroutine past "idle" has an argument.
Serving == \A h \in Handlers : pc[h] # "idle" => arg[h] # Nil

\* The entry AssumeRole is called for stays there, and due, until it returns.
Assuming ==
    \A h \in Handlers :
      pc[h] = "assume" => Entry(h) # Nil /\ RequiresRefresh(Entry(h))

TypeInv == TypeOK /\ LockHeld /\ Serving /\ Assuming

\* Types and the lock at the start.
LEMMA TypeInvInit == Init => TypeInv
<1> SUFFICES ASSUME Init PROVE TypeInv
  OBVIOUS
<1> USE DEF Init
<1>1. TypeOK
  BY NoScanType, ServiceAssumption
     DEF TypeOK, DockerInit, DockerTypeOK, NoScan, ScanType
<1> QED
  BY <1>1, ServiceAssumption, NilAssumption
     DEF TypeInv, LockHeld, Serving, Assuming, Critical

\* Every step keeps the types.
LEMMA TypeOKNext == TypeInv /\ [Next]_vars => TypeOK'
<1> SUFFICES ASSUME TypeInv, [Next]_vars PROVE TypeOK'
  OBVIOUS
<1> USE DEF TypeInv, TypeOK
<1>1. ASSUME NEW h \in Handlers, NEW a \in IPs, Call(h, a) PROVE TypeOK'
  <2>1. PICK w \in Senders(a) : arg' = [arg EXCEPT ![h] = [ip |-> a, who |-> w]]
    BY <1>1 DEF Call
  <2>2. w \in Containers \cup {Nil}
    BY <2>1 DEF Senders, Owners, DockerTypeOK
  <2>3. arg' \in [Handlers -> Request \cup {Nil}]
    BY <2>1, <2>2 DEF Request
  <2> QED  BY <1>1, <2>3 DEF Call, Goto, DockerTypeOK, dockerVars, cacheVars
<1>2. ASSUME NEW h \in Handlers, Acquire(h) PROVE TypeOK'
  BY <1>2 DEF Acquire, Goto, Critical, DockerTypeOK, dockerVars, cacheVars, localVars
<1>3. ASSUME NEW h \in Handlers, Cached(h) PROVE TypeOK'
  <2>1. Entry(h) \in ContainerInfo
    BY <1>3 DEF Cached, Entry, Serving, Addresses, Request
  <2>2. ReplyFrom(Entry(h)) \in Reply
    BY <2>1, ReplyFromType
  <2> QED  BY <1>3, <2>2 DEF Cached, Finish, DockerTypeOK, dockerVars, cacheVars
<1>4. ASSUME NEW h \in Handlers, Due(h) PROVE TypeOK'
  BY <1>4 DEF Due, Critical, DockerTypeOK, dockerVars, cacheVars
<1>5. ASSUME NEW h \in Handlers, Miss(h) PROVE TypeOK'
  BY <1>5 DEF Miss, Goto, Critical, DockerTypeOK, dockerVars, cacheVars, localVars
<1>6. ASSUME NEW h \in Handlers, NotFound(h) PROVE TypeOK'
  BY <1>6 DEF NotFound, Finish, ErrorReply, Reply, DockerTypeOK, dockerVars, cacheVars
<1>7. ASSUME NEW h \in Handlers, ListContainers(h) PROVE TypeOK'
  <2>1. [NoScan EXCEPT !.todo = running] \in ScanType
    BY DEF NoScan, ScanType, DockerTypeOK
  <2> QED
    BY <1>7, <2>1 DEF ListContainers, Goto, Critical, DockerTypeOK, dockerVars, cacheVars
<1>8. ASSUME NEW h \in Handlers, ListContainersFails(h) PROVE TypeOK'
  BY <1>8 DEF ListContainersFails, Goto, Critical, DockerTypeOK, dockerVars, cacheVars,
              localVars
<1>9. ASSUME NEW h \in Handlers, NEW c \in Containers, InspectContainer(h, c) PROVE TypeOK'
  <2>1. NewContainerInfo(c) \in ContainerInfo /\ address[c] \in Addresses
    BY NewInfoType DEF DockerTypeOK, Addresses
  <2> DEFINE new == [todo  |-> scan[h].todo \ {c},
                     ipMap |-> [scan[h].ipMap EXCEPT ![address[c]] = NewContainerInfo(c)],
                     idMap |-> [scan[h].idMap EXCEPT ![c] = address[c]]]
  <2>2. scan[h] \in ScanType
    OBVIOUS
  <2>3. new.ipMap \in [Addresses -> ContainerInfo \cup {Nil}]
    BY <2>1, <2>2 DEF ScanType
  <2>4. new.idMap \in [Containers -> Addresses \cup {Nil}]
    BY <2>1, <2>2 DEF ScanType
  <2>5. new \in ScanType
    BY <2>2, <2>3, <2>4 DEF ScanType
  <2>6. scan' = [scan EXCEPT ![h] = new]
    BY <1>9 DEF InspectContainer
  <2>7. scan' \in [Handlers -> ScanType]
    BY <2>5, <2>6
  <2> QED  BY <1>9, <2>7 DEF InspectContainer, DockerTypeOK, dockerVars, cacheVars
<1>10. ASSUME NEW h \in Handlers, NEW c \in Containers, InspectContainerFails(h, c)
       PROVE  TypeOK'
  <2>1. scan' \in [Handlers -> ScanType]
    BY <1>10 DEF InspectContainerFails, ScanType
  <2> QED  BY <1>10, <2>1 DEF InspectContainerFails, DockerTypeOK, dockerVars, cacheVars
<1>11. ASSUME NEW h \in Handlers, InspectContainerPanics(h) PROVE TypeOK'
  BY <1>11, NoScanType
     DEF InspectContainerPanics, Finish, ErrorReply, Reply, DockerTypeOK, dockerVars, cacheVars
<1>12. ASSUME NEW h \in Handlers, SyncDone(h) PROVE TypeOK'
  <2>1. scan[h].ipMap \in [Addresses -> ContainerInfo \cup {Nil}]
        /\ scan[h].idMap \in [Containers -> Addresses \cup {Nil}]
    BY DEF ScanType
  <2> QED
    BY <1>12, <2>1, NoScanType DEF SyncDone, Goto, Critical, DockerTypeOK, dockerVars
<1>13. ASSUME NEW h \in Handlers, NEW creds \in Credentials \cup {Nil},
              NEW err \in {"none", "assumeRole"}, Refresh(h, creds, err)
       PROVE  TypeOK'
  <2> DEFINE info == Outcome(Entry(h), creds, err)
  <2>1. arg[h].ip \in Addresses /\ Entry(h) \in ContainerInfo
    BY <1>13 DEF Refresh, Entry, Serving, Assuming, Addresses, Request
  <2>2. info \in ContainerInfo
    BY <2>1 DEF Outcome, ContainerInfo
  <2>3. ReplyFrom(info) \in Reply
    BY <2>2, ReplyFromType
  <2>4. containerIPMap' = [containerIPMap EXCEPT ![arg[h].ip] = info]
        /\ reply' = [reply EXCEPT ![h] = ReplyFrom(info)]
    BY <1>13 DEF Refresh, Finish
  <2> HIDE DEF info
  <2> QED  BY <1>13, <2>1, <2>2, <2>3, <2>4 DEF Refresh, Finish, DockerTypeOK, dockerVars
<1>14. ASSUME NEW h \in Handlers, AssumeRole(h) PROVE TypeOK'
  <2>1. PICK t \in checkedAt[h]..now :
          Refresh(h, [role |-> Entry(h).role, expiration |-> t + DurationSeconds], "none")
    BY <1>14 DEF AssumeRole
  <2>2. t \in Nat /\ Entry(h).role \in Roles
    BY <1>14, <2>1, ServiceAssumption DEF AssumeRole
  <2>3. [role |-> Entry(h).role, expiration |-> t + DurationSeconds] \in Credentials
    BY <2>2, ServiceAssumption DEF Credentials
  <2> QED  BY <1>13, <2>1, <2>3
<1>15. ASSUME NEW h \in Handlers, AssumeRoleFails(h) PROVE TypeOK'
  BY <1>13, <1>15 DEF AssumeRoleFails
<1>16. ASSUME NEW h \in Handlers, Return(h) PROVE TypeOK'
  BY <1>16 DEF Return, Goto, DockerTypeOK, dockerVars, cacheVars
<1>17. CASE DockerStep
  <2>1. DockerTypeOK'
    BY <1>17 DEF DockerStep, DockerNext, StartHostNetworked, Start, Stop, DockerTypeOK
  <2>2. arg' \in [Handlers -> Request \cup {Nil}]
    BY <1>17 DEF DockerStep, Request
  <2> QED  BY <1>17, <2>1, <2>2 DEF DockerStep, cacheVars
<1>18. CASE Tick
  BY <1>18 DEF Tick, DockerTypeOK, dockerVars, cacheVars, localVars
<1>19. CASE Restart
  BY <1>19, NoScanType DEF Restart, NoScan, ScanType, DockerTypeOK, dockerVars
<1>20. CASE UNCHANGED vars
  BY <1>20 DEF vars, DockerTypeOK, dockerVars, cacheVars, localVars
<1> QED
  BY <1>1, <1>2, <1>3, <1>4, <1>5, <1>6, <1>7, <1>8, <1>9, <1>10, <1>11, <1>12, <1>14,
     <1>15, <1>16, <1>17, <1>18, <1>19, <1>20 DEF Next, Step

\* A step of docker keeps what a goroutine was called with.
LEMMA DockerKeepsArgs ==
    ASSUME TypeOK, DockerStep, NEW h \in Handlers
    PROVE  /\ arg'[h] = Nil <=> arg[h] = Nil
           /\ arg[h] # Nil => arg'[h].ip = arg[h].ip
<1>1. arg'[h] = IF arg[h] = Nil \/ arg[h].who \in running' THEN arg[h]
                                                       ELSE [arg[h] EXCEPT !.who = Nil]
  BY DEF DockerStep
<1>2. arg[h] \in Request \cup {Nil}
  BY DEF TypeOK
<1> QED  BY <1>1, <1>2, NilAssumption DEF Request

\* Every step keeps the lock with the one goroutine that runs RoleForIP's body.
LEMMA LockHeldNext == TypeInv /\ [Next]_vars => LockHeld' /\ Serving'
<1> SUFFICES ASSUME TypeInv, [Next]_vars PROVE LockHeld' /\ Serving'
  OBVIOUS
<1>1. /\ pc \in [Handlers -> Critical \cup {"idle", "lock", "done"}]
      /\ arg \in [Handlers -> Request \cup {Nil}]
      /\ lock \in Handlers \cup {Nil}
      /\ \A h \in Handlers : pc[h] \in Critical <=> lock = h
      /\ \A h \in Handlers : pc[h] # "idle" => arg[h] # Nil
      /\ Nil \notin Handlers
      /\ Nil \notin Request
  BY NilAssumption DEF TypeInv, TypeOK, LockHeld, Serving
<1> USE <1>1 DEF LockHeld, Serving
<1>2. ASSUME NEW h \in Handlers, NEW a \in IPs, Call(h, a) PROVE LockHeld' /\ Serving'
  <2>1. PICK w \in Senders(a) : arg' = [arg EXCEPT ![h] = [ip |-> a, who |-> w]]
    BY <1>2 DEF Call
  <2>2. [ip |-> a, who |-> w] # Nil
    BY <2>1 DEF Senders, Owners, TypeInv, TypeOK, DockerTypeOK, Request
  <2> QED  BY <1>2, <2>1, <2>2 DEF Call, Goto, Critical
<1>3. ASSUME NEW h \in Handlers, Acquire(h) PROVE LockHeld' /\ Serving'
  BY <1>3 DEF Acquire, Goto, Critical, localVars
<1>4. ASSUME NEW h \in Handlers, Cached(h) PROVE LockHeld' /\ Serving'
  BY <1>4 DEF Cached, Finish, Critical
<1>5. ASSUME NEW h \in Handlers, Due(h) PROVE LockHeld' /\ Serving'
  BY <1>5 DEF Due, Critical
<1>6. ASSUME NEW h \in Handlers, Miss(h) PROVE LockHeld' /\ Serving'
  BY <1>6 DEF Miss, Goto, Critical, localVars
<1>7. ASSUME NEW h \in Handlers, NotFound(h) PROVE LockHeld' /\ Serving'
  BY <1>7 DEF NotFound, Finish, Critical
<1>8. ASSUME NEW h \in Handlers, ListContainers(h) PROVE LockHeld' /\ Serving'
  BY <1>8 DEF ListContainers, Goto, Critical
<1>9. ASSUME NEW h \in Handlers, ListContainersFails(h) PROVE LockHeld' /\ Serving'
  BY <1>9 DEF ListContainersFails, Goto, Critical, localVars
<1>10. ASSUME NEW h \in Handlers, NEW c \in Containers,
              InspectContainer(h, c) \/ InspectContainerFails(h, c)
       PROVE  LockHeld' /\ Serving'
  BY <1>10 DEF InspectContainer, InspectContainerFails
<1>11. ASSUME NEW h \in Handlers, InspectContainerPanics(h) PROVE LockHeld' /\ Serving'
  BY <1>11 DEF InspectContainerPanics, Finish, Critical
<1>12. ASSUME NEW h \in Handlers, SyncDone(h) PROVE LockHeld' /\ Serving'
  BY <1>12 DEF SyncDone, Goto, Critical
<1>13. ASSUME NEW h \in Handlers, AssumeRole(h) \/ AssumeRoleFails(h)
       PROVE  LockHeld' /\ Serving'
  <2>1. /\ pc[h] = "assume" /\ lock' = Nil /\ arg' = arg
        /\ pc' = [pc EXCEPT ![h] = "done"]
    BY <1>13 DEF AssumeRole, AssumeRoleFails, Refresh, Finish
  <2> QED  BY <2>1 DEF Critical
<1>14. ASSUME NEW h \in Handlers, Return(h) PROVE LockHeld' /\ Serving'
  BY <1>14 DEF Return, Goto, Critical
<1>15. CASE DockerStep
  <2>1. lock' = lock /\ pc' = pc
    BY <1>15 DEF DockerStep
  <2> QED  BY <1>15, <2>1, DockerKeepsArgs DEF TypeInv
<1>16. CASE Tick
  BY <1>16 DEF Tick, localVars
<1>17. CASE Restart
  BY <1>17 DEF Restart, Critical
<1>18. CASE UNCHANGED vars
  BY <1>18 DEF vars, localVars
<1> QED
  BY <1>2, <1>3, <1>4, <1>5, <1>6, <1>7, <1>8, <1>9, <1>10, <1>11, <1>12, <1>13, <1>14,
     <1>15, <1>16, <1>17, <1>18 DEF Next, Step

\* While a goroutine calls AssumeRole, no step changes what it found.
LEMMA AssumingNext == TypeInv /\ [Next]_vars => Assuming'
<1> SUFFICES ASSUME TypeInv, [Next]_vars, NEW k \in Handlers, pc'[k] = "assume"
             PROVE  Entry(k)' # Nil /\ RequiresRefresh(Entry(k))'
  BY DEF Assuming
<1>1. /\ pc \in [Handlers -> Critical \cup {"idle", "lock", "done"}]
      /\ arg \in [Handlers -> Request \cup {Nil}]
      /\ containerIPMap \in [Addresses -> ContainerInfo \cup {Nil}]
      /\ now \in Nat
      /\ \A h \in Handlers : pc[h] = "assume" => lock = h
      /\ pc[k] = "assume" => Entry(k) # Nil /\ RequiresRefresh(Entry(k))
      /\ pc[k] # "idle" => arg[k] \in Request
  BY DEF TypeInv, TypeOK, LockHeld, Serving, Assuming, Critical
<1>2. ASSUME pc[k] = "assume", containerIPMap' = containerIPMap, arg'[k] # Nil,
             arg'[k].ip = arg[k].ip, now' = now \/ now' = now + 1
      PROVE  Entry(k)' # Nil /\ RequiresRefresh(Entry(k))'
  \* An entry that is due stays due while time passes.
  <2>1. Entry(k)' = Entry(k) /\ Entry(k) \in ContainerInfo /\ RequiresRefresh(Entry(k))
    BY <1>1, <1>2 DEF Entry, Request, Addresses
  <2>2. /\ Entry(k).lastUpdated \in Int
        /\ Entry(k).creds # Nil => Entry(k).creds.expiration \in Nat
    BY <2>1, ServiceAssumption DEF ContainerInfo, Credentials, ZeroTime
  <2>3. now' \in Nat /\ now' >= now
    BY <1>1, <1>2
  <2> QED
    BY <1>1, <2>1, <2>2, <2>3, ServiceAssumption, NilAssumption
       DEF RequiresRefresh, ExpiredNow, ContainerInfo
<1>3. ASSUME NEW h \in Handlers, Due(h) PROVE Entry(k)' # Nil /\ RequiresRefresh(Entry(k))'
  <2>1. containerIPMap' = containerIPMap /\ arg' = arg /\ now' = now
    BY <1>3 DEF Due, cacheVars
  <2>2. CASE k = h
    BY <1>1, <1>3, <2>1, <2>2 DEF Due, Entry, RequiresRefresh, ExpiredNow
  <2>3. CASE k # h
    BY <1>1, <1>2, <1>3, <2>1, <2>3, NilAssumption DEF Due
  <2> QED  BY <2>2, <2>3
<1>4. ASSUME NEW h \in Handlers,
             SyncDone(h) \/ (\E creds, err : Refresh(h, creds, err))
      PROVE  FALSE
  \* k has the lock, so h is k, which has left "assume".
  <2>1. lock = h /\ pc'[h] # "assume"
    BY <1>1, <1>4 DEF SyncDone, Refresh, Goto, Finish, TypeInv, LockHeld, Critical
  <2>2. \A j \in Handlers : j # h => pc'[j] = pc[j]
    BY <1>1, <1>4 DEF SyncDone, Refresh, Goto, Finish
  <2> QED  BY <1>1, <2>1, <2>2
<1>5. ASSUME NEW h \in Handlers, AssumeRole(h) \/ AssumeRoleFails(h) PROVE FALSE
  BY <1>4, <1>5 DEF AssumeRole, AssumeRoleFails
<1>6. ASSUME NEW h \in Handlers,
             \/ \E a \in IPs : Call(h, a)
             \/ Acquire(h) \/ Cached(h) \/ Miss(h) \/ NotFound(h) \/ ListContainers(h)
             \/ ListContainersFails(h) \/ InspectContainerPanics(h) \/ Return(h)
      PROVE  Entry(k)' # Nil /\ RequiresRefresh(Entry(k))'
  <2>1. k # h /\ containerIPMap' = containerIPMap /\ now' = now
    BY <1>1, <1>6 DEF Call, Acquire, Cached, Miss, NotFound, ListContainers,
       ListContainersFails, InspectContainerPanics, Return, Goto, Finish, cacheVars
  <2>2. arg'[k] = arg[k] /\ pc[k] = "assume"
    BY <1>1, <1>6, <2>1 DEF Call, Acquire, Cached, Miss, NotFound, ListContainers,
       ListContainersFails, InspectContainerPanics, Return, Goto, Finish, localVars
  <2> QED  BY <1>1, <1>2, <2>1, <2>2, NilAssumption
<1>7. ASSUME NEW h \in Handlers, NEW c \in Containers,
             InspectContainer(h, c) \/ InspectContainerFails(h, c)
      PROVE  Entry(k)' # Nil /\ RequiresRefresh(Entry(k))'
  BY <1>1, <1>2, <1>7, NilAssumption DEF InspectContainer, InspectContainerFails, cacheVars
<1>8. CASE DockerStep
  <2>1. pc' = pc /\ containerIPMap' = containerIPMap /\ now' = now
    BY <1>8 DEF DockerStep, cacheVars
  <2>2. arg'[k] # Nil /\ arg'[k].ip = arg[k].ip
    BY <1>1, <1>8, <2>1, DockerKeepsArgs, NilAssumption DEF TypeInv
  <2> QED  BY <1>2, <2>1, <2>2
<1>9. CASE Tick
  BY <1>1, <1>2, <1>9, NilAssumption DEF Tick, cacheVars, localVars
<1>10. CASE Restart
  BY <1>10 DEF Restart
<1>11. CASE UNCHANGED vars
  BY <1>1, <1>2, <1>11, NilAssumption DEF vars, cacheVars, localVars
<1> QED
  BY <1>3, <1>4, <1>5, <1>6, <1>7, <1>8, <1>9, <1>10, <1>11 DEF Next, Step

\* The type invariant and the lock invariant are preserved together.
LEMMA TypeInvNext == TypeInv /\ [Next]_vars => TypeInv'
BY TypeOKNext, LockHeldNext, AssumingNext DEF TypeInv

\* In every reachable state: variables have their types, the mutex is held by the
\* goroutine in RoleForIP's body and no other, and the entry AssumeRole is called
\* for stays due until its result is recorded.
THEOREM TypesAndLock == Spec => []TypeInv
<1>1. Init => TypeInv
  BY TypeInvInit
<1>2. TypeInv /\ [Next]_vars => TypeInv'
  BY TypeInvNext
<1> QED  BY <1>1, <1>2, PTL DEF Spec

\* Every variable keeps its type (container.go:53-60 and the locals of its methods).
THEOREM TypeCorrect == Spec => []TypeOK
<1>1. TypeInv => TypeOK
  BY DEF TypeInv
<1> QED  BY <1>1, TypesAndLock, PTL

\* At most one goroutine is between Lock and Unlock (container.go:73-74).
THEOREM MutualExclusion == Spec => []LockHeld
<1>1. TypeInv => LockHeld
  BY DEF TypeInv
<1> QED  BY <1>1, TypesAndLock, PTL
-----------------------------------------------------------------------------
\* The maps syncContainers builds hold fresh entries of the containers inspected
\* so far, and agree with each other.
ScanConsistent ==
    \A h \in Handlers, a \in Addresses :
      scan[h].ipMap[a] # Nil =>
        /\ scan[h].ipMap[a] = NewContainerInfo(scan[h].ipMap[a].id)
        /\ scan[h].idMap[scan[h].ipMap[a].id] = a
        /\ scan[h].ipMap[a].id \notin scan[h].todo

CacheInv ==
    /\ ScanConsistent
    /\ CacheConsistent
    /\ \A h \in Handlers : checkedAt[h] <= now

\* The entry syncContainers makes is consistent.
LEMMA NewInfoConsistent ==
    ASSUME NEW c \in Containers, now \in Nat
    PROVE  EntryConsistent(NewContainerInfo(c))
BY NewInfoType, ServiceAssumption DEF EntryConsistent, ZeroTime

\* So is the one AssumeRole's outcome is recorded in.
LEMMA RefreshConsistent ==
    ASSUME NEW info \in ContainerInfo, now \in Nat, EntryConsistent(info),
           info.role \in Roles,
           NEW creds, NEW err,
           \/ creds = Nil /\ err = "assumeRole"
           \/ /\ creds \in Credentials /\ err = "none" /\ creds.role = info.role
              /\ creds.expiration <= now + DurationSeconds
    PROVE  EntryConsistent(Outcome(info, creds, err))
<1> DEFINE new == Outcome(info, creds, err)
<1>1. /\ new.lastUpdated = now /\ new.err = err /\ new.creds = creds
      /\ new.role = info.role
  BY DEF Outcome, ContainerInfo
<1> HIDE DEF new
<1>2. info.role # NoRole /\ (creds \in Credentials => creds # Nil)
  BY ServiceAssumption, NilAssumption
<1> QED  BY <1>1, <1>2 DEF EntryConsistent, new

\* An empty cache is consistent.
LEMMA CacheInvInit == Init => CacheInv
BY NilAssumption DEF Init, CacheInv, ScanConsistent, CacheConsistent, NoScan

\* Entries stay consistent while time passes.
LEMMA ConsistencyKept ==
    ASSUME TypeOK, CacheConsistent, cacheVars' = cacheVars, now' = now \/ now' = now + 1
    PROVE  CacheConsistent'
<1> SUFFICES ASSUME NEW a \in Addresses, containerIPMap[a] # Nil
             PROVE  EntryConsistent(containerIPMap[a])'
  BY DEF CacheConsistent, cacheVars
<1>1. EntryConsistent(containerIPMap[a])
  BY DEF CacheConsistent
<1>2. containerIPMap'[a] = containerIPMap[a] /\ containerIPMap[a] \in ContainerInfo
  BY DEF TypeOK, cacheVars
<1>3. containerIPMap[a].lastUpdated \in Int /\ now \in Nat /\ now' \in Nat
  BY <1>2, ServiceAssumption DEF TypeOK, ContainerInfo, ZeroTime
<1> QED  BY <1>1, <1>2, <1>3 DEF EntryConsistent

\* Every step keeps the cache consistent: a sync replaces it by fresh entries, and
\* the outcome of AssumeRole turns a consistent entry into another.
LEMMA CacheInvNext == TypeInv /\ CacheInv /\ [Next]_vars => CacheInv'
<1> SUFFICES ASSUME TypeInv, CacheInv, [Next]_vars PROVE CacheInv'
  OBVIOUS
<1>1. /\ TypeOK /\ ScanConsistent /\ CacheConsistent
      /\ now \in Nat
      /\ scan \in [Handlers -> ScanType]
      /\ checkedAt \in [Handlers -> Nat]
      /\ \A h \in Handlers : checkedAt[h] <= now
  BY DEF TypeInv, CacheInv, TypeOK
<1>2. ASSUME scan' = scan, cacheVars' = cacheVars, now' = now \/ now' = now + 1,
             \A h \in Handlers : checkedAt'[h] \in Nat /\ checkedAt'[h] <= now
      PROVE  CacheInv'
  <2>1. ScanConsistent'
    BY <1>1, <1>2 DEF ScanConsistent
  <2>2. CacheConsistent'
    BY <1>1, <1>2, ConsistencyKept
  <2>3. \A h \in Handlers : checkedAt'[h] <= now'
    BY <1>1, <1>2
  <2> QED  BY <2>1, <2>2, <2>3 DEF CacheInv
<1>3. ASSUME ScanConsistent', cacheVars' = cacheVars, now' = now, checkedAt' = checkedAt
      PROVE  CacheInv'
  BY <1>1, <1>3, ConsistencyKept DEF CacheInv
<1>4. ASSUME NEW h \in Handlers,
             \/ \E a \in IPs : Call(h, a)
             \/ Acquire(h) \/ Cached(h) \/ Due(h) \/ Miss(h) \/ NotFound(h)
             \/ ListContainersFails(h) \/ Return(h)
      PROVE  CacheInv'
  <2>1. scan' = scan /\ cacheVars' = cacheVars /\ now' = now
    BY <1>4 DEF Call, Acquire, Cached, Due, Miss, NotFound, ListContainersFails, Return,
                localVars
  <2>2. \A j \in Handlers : checkedAt'[j] \in {checkedAt[j], now, 0}
    BY <1>1, <1>4 DEF Call, Acquire, Cached, Due, Miss, NotFound, ListContainersFails,
                      Return, localVars
  <2> QED  BY <1>1, <1>2, <2>1, <2>2
<1>5. ASSUME NEW h \in Handlers, ListContainers(h) PROVE CacheInv'
  <2>1. scan'[h].ipMap = NoScan.ipMap /\ \A j \in Handlers : j # h => scan'[j] = scan[j]
    BY <1>1, <1>5 DEF ListContainers, NoScan
  <2>2. ScanConsistent'
    BY <1>1, <2>1 DEF ScanConsistent, NoScan
  <2> QED  BY <1>3, <1>5, <2>2 DEF ListContainers
<1>6. ASSUME NEW h \in Handlers, NEW c \in Containers, InspectContainer(h, c) PROVE CacheInv'
  <2> DEFINE new == [todo  |-> scan[h].todo \ {c},
                     ipMap |-> [scan[h].ipMap EXCEPT ![address[c]] = NewContainerInfo(c)],
                     idMap |-> [scan[h].idMap EXCEPT ![c] = address[c]]]
  <2>1. /\ scan' = [scan EXCEPT ![h] = new] /\ c \in scan[h].todo
        /\ cacheVars' = cacheVars /\ now' = now /\ checkedAt' = checkedAt
    BY <1>6 DEF InspectContainer
  <2>2. /\ scan[h].ipMap \in [Addresses -> ContainerInfo \cup {Nil}]
        /\ scan[h].idMap \in [Containers -> Addresses \cup {Nil}]
    BY <1>1 DEF ScanType
  <2>3. address[c] \in Addresses
    BY <1>1 DEF TypeOK, DockerTypeOK, Addresses
  <2>4. ASSUME NEW a \in Addresses, new.ipMap[a] # Nil
        PROVE  /\ new.ipMap[a] = NewContainerInfo(new.ipMap[a].id)
               /\ new.idMap[new.ipMap[a].id] = a
               /\ new.ipMap[a].id \notin new.todo
    <3>1. CASE a = address[c]
      BY <2>2, <3>1, NewInfoType
    <3>2. CASE a # address[c]
      <4>1. new.ipMap[a] = scan[h].ipMap[a]
        BY <2>2, <2>3, <3>2
      <4>2. /\ scan[h].ipMap[a] = NewContainerInfo(scan[h].ipMap[a].id)
            /\ scan[h].idMap[scan[h].ipMap[a].id] = a
            /\ scan[h].ipMap[a].id \notin scan[h].todo
        BY <2>4, <4>1 DEF CacheInv, ScanConsistent
      <4>3. scan[h].ipMap[a].id \in Containers \ {c}
        BY <2>1, <2>2, <2>4, <4>1, <4>2 DEF ContainerInfo
      <4> QED  BY <2>2, <4>1, <4>2, <4>3
    <3> QED  BY <3>1, <3>2
  <2> HIDE DEF new
  <2>5. ScanConsistent'
    BY <1>1, <2>1, <2>4 DEF ScanConsistent
  <2> QED  BY <1>3, <2>1, <2>5
<1>7. ASSUME NEW h \in Handlers, NEW c \in Containers, InspectContainerFails(h, c)
      PROVE  CacheInv'
  <2>1. /\ scan'[h].ipMap = scan[h].ipMap /\ scan'[h].idMap = scan[h].idMap
        /\ scan'[h].todo \subseteq scan[h].todo
        /\ \A j \in Handlers : j # h => scan'[j] = scan[j]
    BY <1>1, <1>7 DEF InspectContainerFails, ScanType
  <2>2. ScanConsistent'
    BY <1>1, <2>1 DEF ScanConsistent
  <2> QED  BY <1>3, <1>7, <2>2 DEF InspectContainerFails
<1>8. ASSUME NEW h \in Handlers, InspectContainerPanics(h) PROVE CacheInv'
  <2>1. scan'[h].ipMap = NoScan.ipMap /\ \A j \in Handlers : j # h => scan'[j] = scan[j]
    BY <1>1, <1>8 DEF InspectContainerPanics, NoScan
  <2>2. ScanConsistent'
    BY <1>1, <2>1 DEF ScanConsistent, NoScan
  <2> QED  BY <1>3, <1>8, <2>2 DEF InspectContainerPanics
<1>9. ASSUME NEW h \in Handlers, SyncDone(h) PROVE CacheInv'
  <2>1. scan'[h].ipMap = NoScan.ipMap /\ \A j \in Handlers : j # h => scan'[j] = scan[j]
    BY <1>1, <1>9 DEF SyncDone, NoScan
  <2>2. ScanConsistent'
    BY <1>1, <2>1 DEF ScanConsistent, NoScan
  <2>3. containerIPMap' = scan[h].ipMap /\ containerIDMap' = scan[h].idMap /\ now' = now
    BY <1>9 DEF SyncDone
  <2>4. ASSUME NEW a \in Addresses, scan[h].ipMap[a] # Nil
        PROVE  EntryConsistent(scan[h].ipMap[a])
    <3>1. scan[h].ipMap[a].id \in Containers
      BY <1>1, <2>4 DEF ScanType, ContainerInfo
    <3>2. scan[h].ipMap[a] = NewContainerInfo(scan[h].ipMap[a].id)
      BY <1>1, <2>4 DEF ScanConsistent
    <3> QED  BY <1>1, <3>1, <3>2, NewInfoConsistent
  <2>5. CacheConsistent'
    BY <1>1, <2>3, <2>4 DEF CacheConsistent, EntryConsistent, ScanConsistent
  <2> QED  BY <1>1, <1>9, <2>2, <2>5 DEF CacheInv, SyncDone
<1>10. ASSUME NEW h \in Handlers, NEW creds, NEW err, pc[h] = "assume",
              \/ creds = Nil /\ err = "assumeRole"
              \/ /\ creds \in Credentials /\ err = "none" /\ creds.role = Entry(h).role
                 /\ creds.expiration <= now + DurationSeconds,
              Refresh(h, creds, err)
       PROVE  CacheInv'
  <2> DEFINE a    == arg[h].ip
             info == Outcome(Entry(h), creds, err)
  <2>1. arg[h] \in Request
    BY <1>10 DEF TypeInv, TypeOK, Serving
  <2>2. a \in Addresses
    BY <2>1 DEF Request, Addresses
  <2>3. /\ Entry(h) = containerIPMap[a] /\ containerIPMap[a] # Nil
        /\ RequiresRefresh(Entry(h))
    BY <1>10 DEF TypeInv, Assuming, Entry
  <2>4. Entry(h) \in ContainerInfo
    BY <1>1, <2>2, <2>3 DEF TypeOK
  <2>5. EntryConsistent(Entry(h)) /\ containerIDMap[Entry(h).id] = a
    BY <1>1, <2>2, <2>3 DEF CacheConsistent
  <2>6. Entry(h).role \in Roles
    BY <2>3, <2>4 DEF RequiresRefresh, ContainerInfo
  <2>7. EntryConsistent(info) /\ info.id = Entry(h).id
    BY <1>1, <1>10, <2>4, <2>5, <2>6, RefreshConsistent DEF Outcome, ContainerInfo
  <2>8. containerIPMap' = [containerIPMap EXCEPT ![a] = info]
        /\ containerIDMap' = containerIDMap /\ now' = now
        /\ scan' = scan /\ checkedAt' = checkedAt
    BY <1>10 DEF Refresh
  <2>9. \A b \in Addresses : containerIPMap'[b] = IF b = a THEN info ELSE containerIPMap[b]
    BY <1>1, <2>8 DEF TypeOK
  <2>10. \A e : EntryConsistent(e)' <=> EntryConsistent(e)
    BY <2>8 DEF EntryConsistent
  <2> HIDE DEF info, a
  <2>11. CacheConsistent'
    BY <1>1, <2>5, <2>7, <2>8, <2>9 DEF CacheConsistent, EntryConsistent
  <2>12. ScanConsistent'
    BY <1>1, <2>8 DEF ScanConsistent
  <2> QED  BY <1>1, <2>8, <2>11, <2>12 DEF CacheInv
<1>11. ASSUME NEW h \in Handlers, AssumeRole(h) PROVE CacheInv'
  <2>1. PICK t \in checkedAt[h]..now :
          Refresh(h, [role |-> Entry(h).role, expiration |-> t + DurationSeconds], "none")
    BY <1>11 DEF AssumeRole
  <2> DEFINE creds == [role |-> Entry(h).role, expiration |-> t + DurationSeconds]
  <2>2. t \in Nat /\ t <= now /\ Entry(h).role \in Roles
    BY <1>1, <1>11, <2>1, ServiceAssumption DEF AssumeRole
  <2>3. creds \in Credentials /\ creds.expiration <= now + DurationSeconds
    BY <1>1, <2>2, ServiceAssumption DEF Credentials
  <2> QED  BY <1>10, <1>11, <2>1, <2>3 DEF AssumeRole
<1>12. ASSUME NEW h \in Handlers, AssumeRoleFails(h) PROVE CacheInv'
  BY <1>10, <1>12 DEF AssumeRoleFails
<1>13. CASE DockerStep
  BY <1>1, <1>2, <1>13 DEF DockerStep
<1>14. CASE Tick
  BY <1>1, <1>2, <1>14 DEF Tick, localVars
<1>15. CASE Restart
  BY <1>1, <1>15, NilAssumption
     DEF Restart, CacheInv, ScanConsistent, CacheConsistent, NoScan
<1>16. CASE UNCHANGED vars
  BY <1>1, <1>2, <1>16 DEF vars, localVars
<1> QED
  BY <1>4, <1>5, <1>6, <1>7, <1>8, <1>9, <1>11, <1>12, <1>13, <1>14, <1>15, <1>16
     DEF Next, Step

\* The cache is consistent in every reachable state: no entry has an error beside
\* credentials, credentials of another role, or neither although it was tried, and
\* the two maps agree (container.go:86-88, 140, 150-159).
THEOREM CacheIsConsistent == Spec => []CacheConsistent
<1>1. TypeInv /\ CacheInv /\ [Next]_vars => CacheInv'
  BY CacheInvNext
<1>2. CacheInv => CacheConsistent
  BY DEF CacheInv
<1> QED  BY <1>1, <1>2, CacheInvInit, TypesAndLock, PTL DEF Spec

\* The outcome of AssumeRole replaces one that has lapsed and no other: no two
\* goroutines renew the same entry, and none retries a failure within the period
\* (container.go:35-45, 82-89).
THEOREM NoEarlyRefreshes == Spec => NoEarlyRefresh
<1>1. TypeInv /\ CacheInv /\ [Next]_vars =>
        [\A a \in Addresses : Renewed(a) => Lapsed(containerIPMap[a])]_vars
  <2> SUFFICES ASSUME TypeInv, CacheInv, [Next]_vars, NEW a \in Addresses, Renewed(a)
               PROVE  Lapsed(containerIPMap[a])
    OBVIOUS
  <2>1. ASSUME NEW h \in Handlers, NEW creds, NEW err, pc[h] = "assume",
               Refresh(h, creds, err)
        PROVE  Lapsed(containerIPMap[a])
    <3>1. containerIPMap[arg[h].ip] = Entry(h) /\ RequiresRefresh(Entry(h))
      BY <2>1 DEF Entry, TypeInv, Assuming
    <3>2. a = arg[h].ip
      BY <2>1 DEF Refresh, Renewed, TypeInv, TypeOK
    <3>3. containerIPMap[a] \in ContainerInfo /\ now \in Nat
      BY DEF Renewed, TypeInv, TypeOK
    <3>4. containerIPMap[a].lastUpdated \in Int
      BY <3>3, ServiceAssumption DEF ContainerInfo, ZeroTime
    <3> QED
      BY <3>1, <3>2, <3>3, <3>4, ServiceAssumption DEF Lapsed, RequiresRefresh, ExpiredNow
  <2>2. ASSUME NEW h \in Handlers, SyncDone(h) PROVE FALSE
    <3>1. containerIPMap'[a] = scan[h].ipMap[a] /\ scan[h].ipMap[a] # Nil
      BY <2>2 DEF SyncDone, Renewed
    <3>2. scan[h].ipMap[a] \in ContainerInfo
      BY <3>1 DEF TypeInv, TypeOK, ScanType
    <3>3. scan[h].ipMap[a].id \in Containers
      BY <3>2 DEF ContainerInfo
    <3>4. scan[h].ipMap[a] = NewContainerInfo(scan[h].ipMap[a].id)
      BY <3>1 DEF CacheInv, ScanConsistent
    <3> QED  BY <3>1, <3>3, <3>4, NewInfoType DEF Renewed
  <2>3. CASE Restart
    BY <2>3 DEF Restart, Renewed, NoScan
  <2>4. CASE containerIPMap' = containerIPMap
    BY <2>4 DEF Renewed
  <2> QED
    BY <2>1, <2>2, <2>3, <2>4
       DEF Next, Step, vars, cacheVars, Call, Acquire, Cached, Due, Miss, NotFound,
           ListContainers, ListContainersFails, InspectContainer, InspectContainerFails,
           InspectContainerPanics, AssumeRole, AssumeRoleFails, Return, DockerStep, Tick
<1>2. TypeInv /\ CacheInv /\ [Next]_vars => CacheInv'
  BY CacheInvNext
<1> QED  BY <1>1, <1>2, CacheInvInit, TypesAndLock, PTL DEF Spec, NoEarlyRefresh
-----------------------------------------------------------------------------
\* An entry still says what the environment of its container says.
FromEnv(info) ==
    /\ info.role = NewContainerInfo(info.id).role
    /\ info.role = NoRole => info.err = NewContainerInfo(info.id).err

\* Whoever is recorded under an address, or asks from it, has had that address.
Tenancy ==
    /\ ~ReuseAddresses => \A a \in IPs : \A c, d \in tenants[a] : c = d
    /\ \A c \in Containers : address[c] \in IPs => c \in tenants[address[c]]
    /\ \A h \in Handlers, a \in IPs :
         scan[h].ipMap[a] # Nil => scan[h].ipMap[a].id \in tenants[a]
    /\ \A a \in IPs : containerIPMap[a] # Nil =>
         containerIPMap[a].id \in tenants[a] /\ FromEnv(containerIPMap[a])
    /\ \A h \in Handlers :
         arg[h] # Nil /\ arg[h].who # Nil => arg[h].who \in tenants[arg[h].ip]

\* Containers start without addresses and nothing is cached.
LEMMA TenancyInit == Init => Tenancy
BY NilAssumption, DockerAssumption DEF Init, DockerInit, Tenancy, NoScan, Addresses

\* Every step keeps it: docker's only ever add to the tenants of an address, and a
\* sync records a container under the address it has.
LEMMA TenancyNext == TypeInv /\ CacheInv /\ Tenancy /\ [Next]_vars => Tenancy'
<1> SUFFICES ASSUME TypeInv, CacheInv, Tenancy, [Next]_vars PROVE Tenancy'
  OBVIOUS
<1>1. /\ TypeOK /\ DockerTypeOK /\ ScanConsistent /\ IPs \subseteq Addresses
      /\ containerIPMap \in [Addresses -> ContainerInfo \cup {Nil}]
      /\ scan \in [Handlers -> ScanType]
      /\ arg \in [Handlers -> Request \cup {Nil}]
  BY DEF TypeInv, TypeOK, CacheInv, Addresses
<1>2. ASSUME dockerVars' = dockerVars,
             scan' = scan \/ \E h \in Handlers :
               /\ \A j \in Handlers : j # h => scan'[j] = scan[j]
               /\ \A a \in IPs : scan'[h].ipMap[a] # Nil =>
                                   scan'[h].ipMap[a].id \in tenants[a],
             \A a \in IPs : containerIPMap'[a] # Nil =>
               containerIPMap'[a].id \in tenants[a] /\ FromEnv(containerIPMap'[a]),
             \A h \in Handlers :
               arg'[h] = arg[h] \/ (arg'[h] # Nil /\ arg'[h].who # Nil =>
                                      arg'[h].who \in tenants[arg'[h].ip])
      PROVE  Tenancy'
  <2>1. running' = running /\ address' = address /\ tenants' = tenants
    BY <1>2 DEF dockerVars
  <2>2. \A h \in Handlers, a \in IPs :
          scan'[h].ipMap[a] # Nil => scan'[h].ipMap[a].id \in tenants[a]
    BY <1>2 DEF Tenancy
  <2>3. \A h \in Handlers :
         arg'[h] # Nil /\ arg'[h].who # Nil => arg'[h].who \in tenants[arg'[h].ip]
    BY <1>2 DEF Tenancy
  <2>4. \A info : FromEnv(info)' <=> FromEnv(info)
    BY DEF FromEnv, NewContainerInfo
  <2> QED  BY <1>2, <2>1, <2>2, <2>3, <2>4 DEF Tenancy, FromEnv
<1>3. \A a \in IPs : containerIPMap[a] # Nil =>
        containerIPMap[a].id \in tenants[a] /\ FromEnv(containerIPMap[a])
  BY DEF Tenancy
<1>4. ASSUME NEW h \in Handlers, NEW b \in IPs, Call(h, b) PROVE Tenancy'
  <2>1. PICK w \in Senders(b) : arg' = [arg EXCEPT ![h] = [ip |-> b, who |-> w]]
    BY <1>4 DEF Call
  <2>2. w # Nil => w \in tenants[b]
    BY <1>1, <2>1 DEF Senders, Owners, DockerTypeOK, Tenancy
  <2>3. \A j \in Handlers : arg'[j] = arg[j]
          \/ (arg'[j] # Nil /\ arg'[j].who # Nil => arg'[j].who \in tenants[arg'[j].ip])
    BY <1>1, <2>1, <2>2
  <2> QED  BY <1>2, <1>3, <1>4, <2>3 DEF Call, cacheVars
<1>5. ASSUME NEW h \in Handlers,
             \/ Acquire(h) \/ Cached(h) \/ Due(h) \/ Miss(h) \/ NotFound(h)
             \/ ListContainersFails(h)
      PROVE  Tenancy'
  BY <1>2, <1>3, <1>5
     DEF Acquire, Cached, Due, Miss, NotFound, ListContainersFails, localVars, cacheVars
<1>6. ASSUME NEW h \in Handlers, Return(h) PROVE Tenancy'
  <2>1. \A j \in Handlers : arg'[j] = arg[j] \/ arg'[j] = Nil
    BY <1>1, <1>6 DEF Return
  <2> QED  BY <1>2, <1>3, <1>6, <2>1 DEF Return, cacheVars
<1>7. ASSUME NEW h \in Handlers,
             ListContainers(h) \/ InspectContainerPanics(h)
      PROVE  Tenancy'
  <2>1. scan'[h].ipMap = NoScan.ipMap /\ \A j \in Handlers : j # h => scan'[j] = scan[j]
    BY <1>1, <1>7 DEF ListContainers, InspectContainerPanics, NoScan
  <2>2. \A a \in IPs : scan'[h].ipMap[a] = Nil
    BY <1>1, <2>1 DEF NoScan
  <2> QED
    BY <1>2, <1>3, <1>7, <2>1, <2>2 DEF ListContainers, InspectContainerPanics, cacheVars
<1>8. ASSUME NEW h \in Handlers, NEW c \in Containers,
             InspectContainer(h, c) \/ InspectContainerFails(h, c)
      PROVE  Tenancy'
  <2>1. /\ scan[h].ipMap \in [Addresses -> ContainerInfo \cup {Nil}]
        /\ address[c] \in Addresses
    BY <1>1 DEF ScanType, DockerTypeOK, Addresses
  <2>2. \/ scan'[h].ipMap = [scan[h].ipMap EXCEPT ![address[c]] = NewContainerInfo(c)]
        \/ scan'[h].ipMap = scan[h].ipMap
    <3>1. CASE InspectContainer(h, c)
      BY <1>1, <3>1 DEF InspectContainer
    <3>2. CASE InspectContainerFails(h, c)
      BY <1>1, <3>2 DEF InspectContainerFails, ScanType
    <3> QED  BY <1>8, <3>1, <3>2
  <2>3. \A j \in Handlers : j # h => scan'[j] = scan[j]
    BY <1>1, <1>8 DEF InspectContainer, InspectContainerFails
  <2>4. \A a \in IPs : scan'[h].ipMap[a] # Nil => scan'[h].ipMap[a].id \in tenants[a]
    <3> SUFFICES ASSUME NEW a \in IPs, scan'[h].ipMap[a] # Nil
                 PROVE  scan'[h].ipMap[a].id \in tenants[a]
      OBVIOUS
    <3>1. CASE scan'[h].ipMap[a] = scan[h].ipMap[a]
      BY <3>1 DEF Tenancy
    <3>2. CASE scan'[h].ipMap[a] # scan[h].ipMap[a]
      <4>1. a = address[c] /\ scan'[h].ipMap[a] = NewContainerInfo(c)
        BY <1>1, <2>1, <2>2, <3>2
      <4> QED  BY <4>1, NewInfoType DEF Tenancy
    <3> QED  BY <3>1, <3>2
  <2> QED
    BY <1>2, <1>3, <1>8, <2>3, <2>4 DEF InspectContainer, InspectContainerFails, cacheVars
<1>9. ASSUME NEW h \in Handlers, SyncDone(h) PROVE Tenancy'
  <2>1. scan'[h].ipMap = NoScan.ipMap /\ \A j \in Handlers : j # h => scan'[j] = scan[j]
    BY <1>1, <1>9 DEF SyncDone, NoScan
  <2>2. \A a \in IPs : scan'[h].ipMap[a] = Nil
    BY <1>1, <2>1 DEF NoScan
  <2>3. ASSUME NEW a \in IPs, containerIPMap'[a] # Nil
        PROVE  containerIPMap'[a].id \in tenants[a] /\ FromEnv(containerIPMap'[a])
    <3>1. containerIPMap'[a] = scan[h].ipMap[a]
      BY <1>9 DEF SyncDone
    <3>2. scan[h].ipMap[a] = NewContainerInfo(scan[h].ipMap[a].id)
      BY <1>1, <2>3, <3>1 DEF ScanConsistent
    <3> QED  BY <2>3, <3>1, <3>2 DEF Tenancy, FromEnv
  <2> QED  BY <1>2, <1>9, <2>1, <2>2, <2>3 DEF SyncDone
<1>10. ASSUME NEW h \in Handlers, AssumeRole(h) \/ AssumeRoleFails(h) PROVE Tenancy'
  <2>1. PICK creds, err : Refresh(h, creds, err)
    BY <1>10 DEF AssumeRole, AssumeRoleFails
  <2> DEFINE a    == arg[h].ip
             info == Outcome(Entry(h), creds, err)
  <2>2. a \in IPs /\ Entry(h) = containerIPMap[a] /\ Entry(h) # Nil
        /\ RequiresRefresh(Entry(h))
    BY <2>1 DEF Refresh, Entry, TypeInv, TypeOK, Serving, Assuming, Request
  <2>3. Entry(h) \in ContainerInfo
    BY <1>1, <2>2
  <2>4. info.id = Entry(h).id /\ info.role = Entry(h).role /\ info.role # NoRole
    BY <2>2, <2>3 DEF Outcome, ContainerInfo, RequiresRefresh
  <2>5. containerIPMap' = [containerIPMap EXCEPT ![a] = info]
    BY <2>1 DEF Refresh
  <2> HIDE DEF info, a
  <2>6. \A b \in IPs : containerIPMap'[b] # Nil =>
          containerIPMap'[b].id \in tenants[b] /\ FromEnv(containerIPMap'[b])
    BY <1>1, <1>3, <2>2, <2>4, <2>5 DEF FromEnv
  <2> QED  BY <1>2, <2>1, <2>6 DEF Refresh
<1>11. CASE DockerStep
  <2> DEFINE Grown ==
        /\ \A a \in IPs : tenants[a] \subseteq tenants'[a]
        /\ ~ReuseAddresses => \A a \in IPs : \A c, d \in tenants'[a] : c = d
        /\ \A c \in Containers : address'[c] \in IPs => c \in tenants'[address'[c]]
  <2>1. Grown
    <3>1. ASSUME NEW c \in Containers, StartHostNetworked(c) \/ Stop(c)
          PROVE  Grown
      BY <1>1, <3>1, DockerAssumption
         DEF StartHostNetworked, Stop, Tenancy, DockerTypeOK
    <3>2. ASSUME NEW c \in Containers, NEW b \in IPs, Start(c, b) PROVE Grown
      <4>1. /\ tenants' = [tenants EXCEPT ![b] = @ \cup {c}]
            /\ address' = [address EXCEPT ![c] = b]
            /\ ~ReuseAddresses => tenants[b] \subseteq {c}
        BY <3>2 DEF Start
      <4> QED  BY <1>1, <4>1 DEF Tenancy, DockerTypeOK
    <3> QED  BY <1>11, <3>1, <3>2 DEF DockerStep, DockerNext
  <2>2. scan' = scan /\ containerIPMap' = containerIPMap
    BY <1>11 DEF DockerStep, cacheVars
  <2>3. ASSUME NEW h \in Handlers, arg'[h] # Nil, arg'[h].who # Nil
        PROVE  arg'[h].who \in tenants'[arg'[h].ip]
    <3>1. arg[h] \in Request /\ arg'[h] = arg[h]
      <4>1. arg'[h] = IF arg[h] = Nil \/ arg[h].who \in running' THEN arg[h]
                                                       ELSE [arg[h] EXCEPT !.who = Nil]
        BY <1>11 DEF DockerStep
      <4> QED  BY <1>1, <2>3, <4>1 DEF Request
    <3> QED  BY <2>1, <2>3, <3>1 DEF Tenancy, Request
  <2>4. \A info : FromEnv(info)' <=> FromEnv(info)
    BY DEF FromEnv, NewContainerInfo
  <2> QED  BY <2>1, <2>2, <2>3, <2>4 DEF Tenancy, FromEnv
<1>12. CASE Tick
  BY <1>2, <1>3, <1>12 DEF Tick, localVars, cacheVars
<1>13. CASE Restart
  BY <1>1, <1>13 DEF Restart, Tenancy, NoScan, dockerVars
<1>14. CASE UNCHANGED vars
  BY <1>2, <1>3, <1>14 DEF vars, localVars, cacheVars
<1> QED
  BY <1>4, <1>5, <1>6, <1>7, <1>8, <1>9, <1>10, <1>11, <1>12, <1>13, <1>14
     DEF Next, Step
-----------------------------------------------------------------------------
\* Reply r, given at address a after a look at the cache at time t, is usable, not
\* expired, and due to a container that has had the address.
Justified(r, t, a) ==
    /\ r.err = "none" => /\ r.creds # Nil /\ r.creds.role = r.role
                         /\ r.creds.expiration >= t
    /\ r.err # "none" => r.creds = Nil
    /\ r.err \in {"notFound", "panic"} \/
         \E c \in tenants[a] :
           /\ r.err \in {"none", "assumeRole"} => NewContainerInfo(c).role # NoRole
           /\ r.err = "none" => r.role = NewContainerInfo(c).role
           /\ r.err \in {"invalidArn", "noRole"} => r.err = NewContainerInfo(c).err

RepliesJustified ==
    \A h \in Handlers : Done(h) => Justified(reply[h], checkedAt[h], arg[h].ip)

\* A reply made from a consistent entry that is not due is justified.
LEMMA EntryJustifies ==
    ASSUME NEW info \in ContainerInfo, EntryConsistent(info), FromEnv(info),
           NEW a, info.id \in tenants[a], NEW t,
           info.err = "none" => info.creds # Nil /\ info.creds.expiration >= t
    PROVE  Justified(ReplyFrom(info), t, a)
<1>1. info.err \in {"none", "invalidArn", "noRole", "assumeRole"}
  BY DEF ContainerInfo
<1>2. info.err = "none" => info.creds.role = info.role
  BY DEF EntryConsistent
<1>3. info.role = NoRole <=> info.err \in {"invalidArn", "noRole"}
  BY DEF EntryConsistent
<1> QED  BY <1>1, <1>2, <1>3 DEF Justified, ReplyFrom, FromEnv

\* No step takes a tenant from an address: the set is a history.
LEMMA TenantsGrow ==
    ASSUME TypeInv, [Next]_vars, NEW a \in IPs
    PROVE  tenants[a] \subseteq tenants'[a]
<1>1. CASE DockerStep
  BY <1>1 DEF DockerStep, DockerNext, StartHostNetworked, Start, Stop, TypeInv, TypeOK,
              DockerTypeOK
<1>2. CASE tenants' = tenants
  BY <1>2
<1> QED
  BY <1>1, <1>2
     DEF Next, Step, vars, dockerVars, Call, Acquire, Cached, Due, Miss, NotFound,
         ListContainers, ListContainersFails, InspectContainer, InspectContainerFails,
         InspectContainerPanics, SyncDone, AssumeRole, AssumeRoleFails, Refresh, Return,
         Tick, Restart

\* Every reply is justified when it is given, and stays so until it is taken.
LEMMA RepliesNext ==
    TypeInv /\ CacheInv /\ Tenancy /\ RepliesJustified /\ [Next]_vars => RepliesJustified'
<1> SUFFICES ASSUME TypeInv, CacheInv, Tenancy, RepliesJustified, [Next]_vars,
                    NEW k \in Handlers, pc'[k] = "done"
             PROVE  Justified(reply[k], checkedAt[k], arg[k].ip)'
  BY DEF RepliesJustified, Done
<1>1. /\ TypeOK /\ IPs \subseteq Addresses /\ now \in Nat
      /\ containerIPMap \in [Addresses -> ContainerInfo \cup {Nil}]
      /\ pc \in [Handlers -> Critical \cup {"idle", "lock", "done"}]
      /\ reply \in [Handlers -> Reply \cup {Nil}]
      /\ checkedAt \in [Handlers -> Nat]
      /\ arg \in [Handlers -> Request \cup {Nil}]
      /\ \A h \in Handlers : pc[h] # "idle" => arg[h] \in Request /\ arg[h].ip \in IPs
  BY DEF TypeInv, TypeOK, Addresses, Serving, Request
<1>2. ASSUME pc[k] = "done", reply'[k] = reply[k], checkedAt'[k] = checkedAt[k],
             arg'[k].ip = arg[k].ip
      PROVE  Justified(reply[k], checkedAt[k], arg[k].ip)'
  <2>1. Justified(reply[k], checkedAt[k], arg[k].ip)
    BY <1>2 DEF RepliesJustified, Done
  <2>2. tenants[arg[k].ip] \subseteq tenants'[arg[k].ip]
    BY <1>1, <1>2, TenantsGrow
  <2> QED  BY <1>2, <2>1, <2>2 DEF Justified, NewContainerInfo
<1>3. ASSUME NEW h \in Handlers, NEW r, Finish(h, r), pc[h] # "idle", arg' = arg,
             Justified(r, checkedAt'[h], arg[h].ip), tenants' = tenants,
             \A j \in Handlers : j # h => checkedAt'[j] = checkedAt[j]
      PROVE  Justified(reply[k], checkedAt[k], arg[k].ip)'
  <2>1. CASE k = h
    BY <1>1, <1>3, <2>1 DEF Finish, Justified, NewContainerInfo
  <2>2. CASE k # h
    BY <1>1, <1>2, <1>3, <2>2 DEF Finish
  <2> QED  BY <2>1, <2>2
<1>4. ASSUME NEW h \in Handlers, Cached(h)
      PROVE  Justified(reply[k], checkedAt[k], arg[k].ip)'
  <2> DEFINE a == arg[h].ip
  <2>1. a \in IPs /\ Entry(h) = containerIPMap[a] /\ Entry(h) \in ContainerInfo
    BY <1>1, <1>4 DEF Cached, Entry
  <2>2. /\ EntryConsistent(Entry(h)) /\ FromEnv(Entry(h)) /\ Entry(h).id \in tenants[a]
    BY <1>1, <1>4, <2>1 DEF Cached, CacheInv, CacheConsistent, Tenancy
  <2>3. Entry(h).err = "none" =>
          Entry(h).creds # Nil /\ Entry(h).creds.expiration >= now
    <3>1. SUFFICES ASSUME Entry(h).err = "none"
                   PROVE  Entry(h).creds # Nil /\ Entry(h).creds.expiration >= now
      OBVIOUS
    <3>2. Entry(h).role # NoRole /\ ~RequiresRefresh(Entry(h))
      BY <1>4, <2>2, <3>1 DEF Cached, EntryConsistent
    <3>3. Entry(h).creds # Nil
      <4>1. now - ZeroTime > credentialsRefreshPeriod
        BY <1>1, ServiceAssumption DEF ZeroTime
      <4> QED  BY <2>2, <3>1, <3>2, <4>1 DEF RequiresRefresh, EntryConsistent
    <3>4. Entry(h).creds.expiration \in Nat
      BY <2>1, <3>3 DEF ContainerInfo, Credentials
    <3> QED  BY <1>1, <3>2, <3>3, <3>4 DEF RequiresRefresh, ExpiredNow
  <2>4. Justified(ReplyFrom(Entry(h)), now, a)
    BY <2>1, <2>2, <2>3, EntryJustifies
  <2>5. /\ Finish(h, ReplyFrom(Entry(h))) /\ pc[h] # "idle" /\ arg' = arg
        /\ tenants' = tenants /\ checkedAt' = [checkedAt EXCEPT ![h] = now]
    BY <1>4 DEF Cached, dockerVars
  <2> QED  BY <1>1, <1>3, <2>4, <2>5
<1>5. ASSUME NEW h \in Handlers, NotFound(h) \/ InspectContainerPanics(h)
      PROVE  Justified(reply[k], checkedAt[k], arg[k].ip)'
  <2>1. PICK e \in {"notFound", "panic"} : Finish(h, ErrorReply(e))
    BY <1>5 DEF NotFound, InspectContainerPanics
  <2>2. Justified(ErrorReply(e), checkedAt'[h], arg[h].ip)
    BY <2>1 DEF Justified, ErrorReply
  <2> QED
    BY <1>3, <1>5, <2>1, <2>2 DEF NotFound, InspectContainerPanics, dockerVars
<1>6. ASSUME NEW h \in Handlers, NEW creds, NEW err, pc[h] = "assume",
             \/ creds = Nil /\ err = "assumeRole"
             \/ /\ creds \in Credentials /\ err = "none" /\ creds.role = Entry(h).role
                /\ creds.expiration <= now + DurationSeconds
                /\ creds.expiration >= checkedAt[h],
             Refresh(h, creds, err)
      PROVE  Justified(reply[k], checkedAt[k], arg[k].ip)'
  <2> DEFINE a    == arg[h].ip
             info == Outcome(Entry(h), creds, err)
  <2>1. a \in IPs /\ Entry(h) = containerIPMap[a] /\ Entry(h) \in ContainerInfo
        /\ containerIPMap[a] # Nil /\ RequiresRefresh(Entry(h))
    BY <1>1, <1>6 DEF TypeInv, Assuming, Entry
  <2>2. /\ EntryConsistent(Entry(h)) /\ FromEnv(Entry(h)) /\ Entry(h).id \in tenants[a]
        /\ Entry(h).role \in Roles
    BY <1>1, <2>1 DEF CacheInv, CacheConsistent, Tenancy, RequiresRefresh, ContainerInfo
  <2>3. /\ info \in ContainerInfo /\ info.id = Entry(h).id /\ info.role = Entry(h).role
        /\ info.creds = creds /\ info.err = err
    BY <1>1, <1>6, <2>1 DEF Outcome, ContainerInfo
  <2>4. EntryConsistent(info)
    BY <1>1, <1>6, <2>1, <2>2, RefreshConsistent
  <2>5. FromEnv(info)
    BY <2>2, <2>3, ServiceAssumption DEF FromEnv
  <2>6. info.err = "none" => info.creds # Nil /\ info.creds.expiration >= checkedAt[h]
    BY <1>6, <2>3, NilAssumption
  <2>7. /\ Finish(h, ReplyFrom(info)) /\ arg' = arg /\ tenants' = tenants
        /\ checkedAt' = checkedAt
    BY <1>6 DEF Refresh, dockerVars
  <2> HIDE DEF info
  <2>8. Justified(ReplyFrom(info), checkedAt[h], a)
    BY <2>2, <2>3, <2>4, <2>5, <2>6, EntryJustifies
  <2> QED  BY <1>3, <1>6, <2>7, <2>8
<1>7. ASSUME NEW h \in Handlers, AssumeRole(h)
      PROVE  Justified(reply[k], checkedAt[k], arg[k].ip)'
  <2>1. PICK t \in checkedAt[h]..now :
          Refresh(h, [role |-> Entry(h).role, expiration |-> t + DurationSeconds], "none")
    BY <1>7 DEF AssumeRole
  <2> DEFINE creds == [role |-> Entry(h).role, expiration |-> t + DurationSeconds]
  <2>2. t \in Nat /\ t <= now /\ t >= checkedAt[h] /\ Entry(h).role \in Roles
    BY <1>1, <1>7, <2>1, ServiceAssumption DEF AssumeRole
  <2>3. creds \in Credentials /\ creds.expiration <= now + DurationSeconds
        /\ creds.expiration >= checkedAt[h]
    BY <1>1, <2>2, ServiceAssumption DEF Credentials
  <2> QED  BY <1>6, <1>7, <2>1, <2>3 DEF AssumeRole
<1>8. ASSUME NEW h \in Handlers, AssumeRoleFails(h)
      PROVE  Justified(reply[k], checkedAt[k], arg[k].ip)'
  BY <1>6, <1>8 DEF AssumeRoleFails
<1>9. ASSUME NEW h \in Handlers,
             \/ \E a \in IPs : Call(h, a)
             \/ Acquire(h) \/ Due(h) \/ Miss(h) \/ ListContainers(h)
             \/ ListContainersFails(h) \/ SyncDone(h) \/ Return(h)
      PROVE  Justified(reply[k], checkedAt[k], arg[k].ip)'
  <2>1. pc'[h] # "done" /\ \A j \in Handlers : j # h =>
          pc'[j] = pc[j] /\ reply'[j] = reply[j] /\ checkedAt'[j] = checkedAt[j]
                         /\ arg'[j] = arg[j]
    BY <1>1, <1>9 DEF Call, Acquire, Due, Miss, ListContainers, ListContainersFails,
                      SyncDone, Return, Goto, localVars
  <2> QED  BY <1>2, <2>1
<1>10. ASSUME NEW h \in Handlers, NEW c \in Containers,
              InspectContainer(h, c) \/ InspectContainerFails(h, c)
       PROVE  Justified(reply[k], checkedAt[k], arg[k].ip)'
  BY <1>2, <1>10 DEF InspectContainer, InspectContainerFails
<1>11. CASE DockerStep
  <2>1. pc' = pc /\ reply' = reply /\ checkedAt' = checkedAt
    BY <1>11 DEF DockerStep
  <2>2. arg[k] # Nil
    BY <1>1, <2>1, NilAssumption
  <2> QED  BY <1>1, <1>2, <1>11, <2>1, <2>2, DockerKeepsArgs
<1>12. CASE Tick
  BY <1>2, <1>12 DEF Tick, localVars
<1>13. CASE Restart
  BY <1>13 DEF Restart
<1>14. CASE UNCHANGED vars
  BY <1>2, <1>14 DEF vars, localVars
<1> QED
  BY <1>4, <1>5, <1>7, <1>8, <1>9, <1>10, <1>11, <1>12, <1>13, <1>14 DEF Next, Step

\* The inductive invariant of the service.
Inv == TypeInv /\ CacheInv /\ Tenancy /\ RepliesJustified

\* The parts of the invariant hold together, always.
THEOREM Invariance == Spec => []Inv
<1>1. Init => Inv
  BY TypeInvInit, CacheInvInit, TenancyInit DEF Init, Inv, RepliesJustified, Done
<1>2. Inv /\ [Next]_vars => Inv'
  BY TypeInvNext, CacheInvNext, TenancyNext, RepliesNext DEF Inv
<1> QED  BY <1>1, <1>2, PTL DEF Spec

\* A reply without error carries credentials of its role, so that main.go:220-223
\* never dereferences nil.
THEOREM RepliesAreUsable == Spec => []RepliesUsable
<1>1. Inv => RepliesUsable
  BY DEF Inv, RepliesJustified, Justified, RepliesUsable
<1> QED  BY <1>1, Invariance, PTL

\* No reply carries credentials that had expired when the cache was looked at
\* (container.go:40-41, 82).
THEOREM RepliesAreUnexpired == Spec => []RepliesUnexpired
<1>1. Inv => RepliesUnexpired
  BY DEF Inv, RepliesJustified, Justified, RepliesUnexpired
<1> QED  BY <1>1, Invariance, PTL

\* As long as docker gives no container an address that was another's, each gets
\* credentials of the role it declares only (container.go:99, 142-159, 166-176).
THEOREM RolesMatchRequesters ==
    ASSUME ~ReuseAddresses PROVE Spec => []RoleMatchesRequester
<1>1. Inv => RoleMatchesRequester
  <2> SUFFICES ASSUME Inv, NEW h \in Handlers, Done(h),
                      arg[h].who # Nil, reply[h].creds # Nil
               PROVE  Declares(arg[h].who, reply[h].role)
    BY DEF RoleMatchesRequester
  <2>1. arg[h] # Nil /\ arg[h].ip \in IPs /\ arg[h].who \in Containers
    BY DEF Inv, TypeInv, TypeOK, Serving, Done, Request
  <2>2. arg[h].who \in tenants[arg[h].ip]
    BY <2>1 DEF Inv, Tenancy
  <2>3. PICK c \in tenants[arg[h].ip] :
          NewContainerInfo(c).role # NoRole /\ reply[h].role = NewContainerInfo(c).role
    BY DEF Inv, RepliesJustified, Justified
  <2>4. c = arg[h].who
    BY <2>1, <2>2 DEF Inv, Tenancy
  <2> QED  BY <2>1, <2>3, <2>4, NewInfoType
<1> QED  BY <1>1, Invariance, PTL

\* Under the same condition a container is refused only for what is wrong with its
\* own declaration (container.go:144-146, 166-176; role.go:23-31).
THEOREM DenialsHaveReasons ==
    ASSUME ~ReuseAddresses PROVE Spec => []DeniedForAReason
<1>1. Inv => DeniedForAReason
  <2> SUFFICES ASSUME Inv, NEW h \in Handlers, Done(h),
                      arg[h].who # Nil
               PROVE  /\ reply[h].err = "noRole" => Declares(arg[h].who, NoRole)
                      /\ reply[h].err = "invalidArn" =>
                           \A v \in Roles \cup {NoRole} : ~Declares(arg[h].who, v)
                      /\ reply[h].err = "assumeRole" =>
                           \E v \in Roles : Declares(arg[h].who, v)
    BY DEF DeniedForAReason
  <2>1. arg[h] # Nil /\ arg[h].ip \in IPs /\ arg[h].who \in Containers
    BY DEF Inv, TypeInv, TypeOK, Serving, Done, Request
  <2>2. arg[h].who \in tenants[arg[h].ip]
    BY <2>1 DEF Inv, Tenancy
  <2>3. CASE reply[h].err \in {"noRole", "invalidArn", "assumeRole"}
    <3>1. PICK c \in tenants[arg[h].ip] :
            /\ reply[h].err = "assumeRole" => NewContainerInfo(c).role # NoRole
            /\ reply[h].err \in {"invalidArn", "noRole"} =>
                 reply[h].err = NewContainerInfo(c).err
      BY <2>3 DEF Inv, RepliesJustified, Justified
    <3>2. c = arg[h].who
      BY <2>1, <2>2 DEF Inv, Tenancy
    <3> QED  BY <2>1, <3>1, <3>2, NewInfoType DEF ContainerInfo
  <2> QED  BY <2>3
<1> QED  BY <1>1, Invariance, PTL
-----------------------------------------------------------------------------

\* A container is entitled to the role of its entry, or refused for its error.
LEMMA VerdictOfEntry ==
    ASSUME NEW info \in ContainerInfo, EntryConsistent(info), FromEnv(info)
    PROVE  /\ verdict[info.id] = IF info.role # NoRole THEN info.role ELSE info.err
           /\ verdict[info.id] \in Roles <=> info.role # NoRole
           /\ verdict[info.id] \in {"noRole", "invalidArn"} <=> info.role = NoRole
<1>1. info.id \in Containers /\ info.role \in Roles \cup {NoRole}
  BY DEF ContainerInfo
<1>2. info.role = NoRole => info.err \in {"noRole", "invalidArn"}
  BY DEF EntryConsistent
<1>3. verdict[info.id] = IF info.role # NoRole THEN info.role ELSE info.err
  BY <1>1 DEF verdict, FromEnv
<1> QED  BY <1>1, <1>2, <1>3, ServiceAssumption, RefinementAssumption

\* The abstract entry of a map entry, and whether it is due.
LEMMA AbstractEntry ==
    ASSUME now \in Nat, NEW info \in ContainerInfo, EntryConsistent(info), FromEnv(info)
    PROVE  /\ absEntry(info) \in RC!Entry
           /\ absEntry(info) # Nil
           /\ RC!Due(absEntry(info)) <=> RequiresRefresh(info)
<1>1. absEntry(info) \in RC!Entry
  BY DEF absEntry, ContainerInfo, Credentials, RC!Entry
<1>2. info.creds # Nil => info.creds.expiration \in Nat /\ info.creds.expiration # Nil
  BY RefinementAssumption DEF ContainerInfo, Credentials
<1>3. info.lastUpdated = ZeroTime => now - info.lastUpdated > credentialsRefreshPeriod
  BY ServiceAssumption DEF ZeroTime
<1>4. RC!Due(absEntry(info)) <=> RequiresRefresh(info)
  BY <1>2, <1>3, VerdictOfEntry DEF RC!Due, RequiresRefresh, ExpiredNow, absEntry
<1> QED  BY <1>1, <1>4, RefinementAssumption

\* A reply made from an entry is the abstract answer from its abstract entry.
LEMMA AbstractAnswer ==
    ASSUME NEW info \in ContainerInfo, EntryConsistent(info), FromEnv(info),
           info.err = "none" => info.creds # Nil
    PROVE  absAnswer(ReplyFrom(info)) = RC!Answer(absEntry(info))
<1>1. info.creds # Nil => info.creds.expiration # Nil
  BY RefinementAssumption DEF ContainerInfo, Credentials
<1>2. CASE info.role = NoRole
  <2>1. info.creds = Nil /\ info.err # "none" /\ verdict[info.id] = info.err
    BY <1>2, VerdictOfEntry DEF EntryConsistent
  <2> QED
    BY <1>2, <2>1, VerdictOfEntry DEF ReplyFrom, absAnswer, absEntry, RC!Answer
<1>3. CASE info.role # NoRole /\ info.creds = Nil
  <2>1. info.err = "assumeRole"
    BY <1>3 DEF EntryConsistent, ContainerInfo
  <2> QED
    BY <1>3, <2>1, VerdictOfEntry DEF ReplyFrom, absAnswer, absEntry, RC!Answer
<1>4. CASE info.role # NoRole /\ info.creds # Nil
  <2>1. info.err = "none"
    BY <1>4 DEF EntryConsistent
  <2> QED
    BY <1>1, <1>4, <2>1, VerdictOfEntry DEF ReplyFrom, absAnswer, absEntry, RC!Answer
<1> QED  BY <1>2, <1>3, <1>4
-----------------------------------------------------------------------------
\* A goroutine that is about to resynchronise has no entry for its address: it
\* missed, and has held the lock since.
Missing == \A h \in Handlers : pc[h] \in {"list", "inspect"} => Entry(h) = Nil

\* While a goroutine syncs, its address has no entry: nobody else adds one, as it has the lock.
LEMMA MissingNext == TypeInv /\ Missing /\ [Next]_vars => Missing'
<1> SUFFICES ASSUME TypeInv, Missing, [Next]_vars,
                    NEW k \in Handlers, pc'[k] \in {"list", "inspect"}
             PROVE  Entry(k)' = Nil
  BY DEF Missing
<1>1. /\ pc \in [Handlers -> Critical \cup {"idle", "lock", "done"}]
      /\ arg \in [Handlers -> Request \cup {Nil}]
      /\ \A h \in Handlers : pc[h] \in Critical <=> lock = h
      /\ pc[k] \in {"list", "inspect"} => Entry(k) = Nil
      /\ pc[k] # "idle" => arg[k] # Nil
  BY DEF TypeInv, TypeOK, LockHeld, Serving, Missing
<1>2. ASSUME pc[k] \in {"list", "inspect"}, containerIPMap' = containerIPMap,
             arg'[k].ip = arg[k].ip
      PROVE  Entry(k)' = Nil
  BY <1>1, <1>2 DEF Entry
<1>3. ASSUME NEW h \in Handlers, Miss(h) PROVE Entry(k)' = Nil
  <2>1. containerIPMap' = containerIPMap /\ arg' = arg
    BY <1>3 DEF Miss, cacheVars, localVars
  <2>2. k # h => pc'[k] = pc[k]
    BY <1>1, <1>3 DEF Miss, Goto
  <2> QED  BY <1>1, <1>3, <2>1, <2>2 DEF Miss, Entry
<1>4. ASSUME NEW h \in Handlers,
             SyncDone(h) \/ (\E creds, err : Refresh(h, creds, err))
      PROVE  FALSE
  <2>1. lock = h /\ pc'[h] \in {"relookup", "done"}
    BY <1>1, <1>4 DEF SyncDone, Refresh, Goto, Finish, Critical
  <2>2. \A j \in Handlers : j # h => pc'[j] = pc[j]
    BY <1>1, <1>4 DEF SyncDone, Refresh, Goto, Finish
  <2> QED  BY <1>1, <2>1, <2>2 DEF Critical
<1>5. ASSUME NEW h \in Handlers, AssumeRole(h) \/ AssumeRoleFails(h) PROVE FALSE
  BY <1>4, <1>5 DEF AssumeRole, AssumeRoleFails
<1>6. ASSUME NEW h \in Handlers,
             \/ \E a \in IPs : Call(h, a)
             \/ Acquire(h) \/ Cached(h) \/ Due(h) \/ NotFound(h) \/ ListContainersFails(h)
             \/ InspectContainerPanics(h) \/ Return(h)
      PROVE  Entry(k)' = Nil
  <2>1. k # h /\ containerIPMap' = containerIPMap
    BY <1>1, <1>6 DEF Call, Acquire, Cached, Due, NotFound, ListContainersFails,
       InspectContainerPanics, Return, Goto, Finish, cacheVars
  <2>2. arg'[k] = arg[k] /\ pc'[k] = pc[k]
    BY <1>1, <1>6, <2>1 DEF Call, Acquire, Cached, Due, NotFound, ListContainersFails,
       InspectContainerPanics, Return, Goto, Finish, localVars
  <2> QED  BY <1>2, <2>1, <2>2
<1>7. ASSUME NEW h \in Handlers, ListContainers(h) PROVE Entry(k)' = Nil
  <2>1. pc[k] \in {"list", "inspect"}
    BY <1>1, <1>7 DEF ListContainers, Goto
  <2> QED  BY <1>2, <1>7, <2>1 DEF ListContainers, cacheVars
<1>8. ASSUME NEW h \in Handlers, NEW c \in Containers,
             InspectContainer(h, c) \/ InspectContainerFails(h, c)
      PROVE  Entry(k)' = Nil
  BY <1>2, <1>8 DEF InspectContainer, InspectContainerFails, cacheVars
<1>9. CASE DockerStep
  <2>1. pc' = pc /\ containerIPMap' = containerIPMap
    BY <1>9 DEF DockerStep, cacheVars
  <2>2. arg'[k].ip = arg[k].ip
    BY <1>1, <1>9, <2>1, DockerKeepsArgs DEF TypeInv
  <2> QED  BY <1>2, <2>1, <2>2
<1>10. CASE Tick
  BY <1>2, <1>10 DEF Tick, cacheVars, localVars
<1>11. CASE Restart
  BY <1>11 DEF Restart
<1>12. CASE UNCHANGED vars
  BY <1>2, <1>12 DEF vars, cacheVars, localVars
<1> QED
  BY <1>3, <1>4, <1>5, <1>6, <1>7, <1>8, <1>9, <1>10, <1>11, <1>12 DEF Next, Step

\* A goroutine that is done has a reply.
Answered == \A h \in Handlers : Done(h) => reply[h] \in Reply

\* Every goroutine that is done has a reply.
LEMMA AnsweredNext == TypeInv /\ Answered /\ [Next]_vars => Answered'
<1> SUFFICES ASSUME TypeInv, Answered, [Next]_vars, NEW k \in Handlers, pc'[k] = "done"
             PROVE  reply'[k] \in Reply
  BY DEF Answered, Done
<1>1. /\ pc \in [Handlers -> Critical \cup {"idle", "lock", "done"}]
      /\ arg \in [Handlers -> Request \cup {Nil}]
      /\ reply \in [Handlers -> Reply \cup {Nil}]
      /\ containerIPMap \in [Addresses -> ContainerInfo \cup {Nil}]
      /\ \A h \in Handlers : pc[h] # "idle" => arg[h] # Nil
      /\ \A h \in Handlers : pc[h] = "assume" => Entry(h) # Nil
      /\ pc[k] = "done" => reply[k] \in Reply
  BY DEF TypeInv, TypeOK, Serving, Assuming, Answered, Done
<1>2. ASSUME pc'[k] = pc[k], reply'[k] = reply[k] PROVE reply'[k] \in Reply
  BY <1>1, <1>2
<1>3. ASSUME NEW h \in Handlers, NEW r \in Reply, Finish(h, r) PROVE reply'[k] \in Reply
  BY <1>1, <1>2, <1>3 DEF Finish
<1>4. ASSUME NEW e \in {"notFound", "panic"} PROVE ErrorReply(e) \in Reply
  BY DEF ErrorReply, Reply
<1>5. ASSUME NEW h \in Handlers, pc[h] # "idle", Entry(h) # Nil
      PROVE  Entry(h) \in ContainerInfo
  BY <1>1, <1>5 DEF Entry, Request, Addresses
<1>6. ASSUME NEW h \in Handlers, Cached(h) PROVE reply'[k] \in Reply
  BY <1>3, <1>5, <1>6, ReplyFromType DEF Cached
<1>7. ASSUME NEW h \in Handlers, NotFound(h) \/ InspectContainerPanics(h)
      PROVE  reply'[k] \in Reply
  BY <1>3, <1>4, <1>7 DEF NotFound, InspectContainerPanics
<1>8. ASSUME NEW h \in Handlers, NEW creds \in Credentials \cup {Nil},
             NEW err \in {"none", "assumeRole"}, Refresh(h, creds, err)
      PROVE  reply'[k] \in Reply
  <2>1. Entry(h) \in ContainerInfo
    BY <1>1, <1>5, <1>8 DEF Refresh
  <2>2. now \in Nat
    BY DEF TypeInv, TypeOK
  <2>3. Outcome(Entry(h), creds, err) \in ContainerInfo
    BY <2>1, <2>2 DEF Outcome, ContainerInfo
  <2> QED  BY <1>3, <1>8, <2>3, ReplyFromType DEF Refresh
<1>9. ASSUME NEW h \in Handlers, AssumeRole(h) PROVE reply'[k] \in Reply
  <2>1. PICK t \in checkedAt[h]..now :
          Refresh(h, [role |-> Entry(h).role, expiration |-> t + DurationSeconds], "none")
    BY <1>9 DEF AssumeRole
  <2>2. t \in Nat /\ Entry(h).role \in Roles
    BY <1>9, <2>1, ServiceAssumption DEF AssumeRole, TypeInv, TypeOK
  <2>3. [role |-> Entry(h).role, expiration |-> t + DurationSeconds] \in Credentials
    BY <2>2, ServiceAssumption DEF Credentials
  <2> QED  BY <1>8, <2>1, <2>3
<1>10. ASSUME NEW h \in Handlers, AssumeRoleFails(h) PROVE reply'[k] \in Reply
  BY <1>8, <1>10 DEF AssumeRoleFails
<1>11. ASSUME NEW h \in Handlers,
              \/ \E a \in IPs : Call(h, a)
              \/ Acquire(h) \/ Due(h) \/ Miss(h) \/ ListContainers(h)
              \/ ListContainersFails(h) \/ SyncDone(h)
       PROVE  reply'[k] \in Reply
  <2>1. reply' = reply /\ pc'[k] = pc[k]
    BY <1>1, <1>11 DEF Call, Acquire, Due, Miss, ListContainers, ListContainersFails,
       SyncDone, Goto, localVars
  <2> QED  BY <1>2, <2>1
<1>12. ASSUME NEW h \in Handlers, Return(h) PROVE reply'[k] \in Reply
  <2>1. k # h
    BY <1>1, <1>12 DEF Return, Goto
  <2> QED  BY <1>1, <1>2, <1>12, <2>1 DEF Return, Goto
<1>13. ASSUME NEW h \in Handlers, NEW c \in Containers,
              InspectContainer(h, c) \/ InspectContainerFails(h, c)
       PROVE  reply'[k] \in Reply
  BY <1>2, <1>13 DEF InspectContainer, InspectContainerFails
<1>14. CASE DockerStep
  BY <1>2, <1>14 DEF DockerStep
<1>15. CASE Tick
  BY <1>2, <1>15 DEF Tick, localVars
<1>16. CASE Restart
  BY <1>16 DEF Restart
<1>17. CASE UNCHANGED vars
  BY <1>2, <1>17 DEF vars, localVars
<1> QED
  BY <1>6, <1>7, <1>9, <1>10, <1>11, <1>12, <1>13, <1>14, <1>15, <1>16, <1>17
     DEF Next, Step

\* What the simulation needs to know of a state.
RefinementInv == Inv /\ Missing /\ Answered

\* What the refinement needs besides the invariant holds always.
LEMMA RefinementInvariance == Spec => []RefinementInv
<1>1. Init => Missing /\ Answered
  BY DEF Init, Missing, Answered, Done
<1>2. TypeInv /\ (Missing /\ Answered) /\ [Next]_vars => (Missing /\ Answered)'
  BY MissingNext, AnsweredNext
<1> QED  BY <1>1, <1>2, TypesAndLock, Invariance, PTL DEF Spec, RefinementInv
-----------------------------------------------------------------------------
\* How a state appears to the callers: who waits, what is known, what was said.
LEMMA AbstractState ==
    ASSUME RefinementInv, NEW h \in Handlers
    PROVE  /\ pc[h] # "idle" => absRequest[h] = arg[h].ip /\ arg[h].ip \in IPs
           /\ pc[h] \in Critical => RC!Waiting(h)
           /\ absReply[h] # Nil <=> Done(h)
<1>1. /\ arg \in [Handlers -> Request \cup {Nil}]
      /\ pc[h] # "idle" => arg[h] # Nil
      /\ Done(h) => reply[h] \in Reply
  BY DEF RefinementInv, Inv, TypeInv, TypeOK, Serving, Answered
<1>2. pc[h] # "idle" => absRequest[h] = arg[h].ip /\ arg[h].ip \in IPs /\ arg[h].ip # Nil
  BY <1>1, NilAssumption DEF absRequest, Request
<1>3. Done(h) => absAnswer(reply[h]) \in AbsAnswer
  BY <1>1, ServiceAssumption DEF absAnswer, AbsAnswer, Reply, Credentials
<1>4. absReply[h] # Nil <=> Done(h)
  BY <1>3, RefinementAssumption DEF absReply
<1> QED  BY <1>2, <1>4 DEF RC!Waiting, Critical, Done

\* A request's entry, and its abstraction.
LEMMA AbstractLookup ==
    ASSUME RefinementInv, NEW h \in Handlers, pc[h] # "idle"
    PROVE  /\ Entry(h) = Nil <=> absCache[absRequest[h]] = Nil
           /\ Entry(h) # Nil =>
                /\ Entry(h) \in ContainerInfo /\ EntryConsistent(Entry(h)) /\ FromEnv(Entry(h))
                /\ absCache[absRequest[h]] = absEntry(Entry(h))
<1>1. arg[h].ip \in IPs /\ absRequest[h] = arg[h].ip
  BY AbstractState
<1>2. /\ now \in Nat
      /\ Entry(h) # Nil =>
           Entry(h) \in ContainerInfo /\ EntryConsistent(Entry(h)) /\ FromEnv(Entry(h))
  BY <1>1 DEF RefinementInv, Inv, TypeInv, TypeOK, CacheInv, CacheConsistent, Tenancy,
              Entry, Addresses
<1> QED  BY <1>1, <1>2, AbstractEntry DEF absCache, Entry

\* Nothing that callers could see has changed.
LEMMA Stutter ==
    ASSUME RefinementInv, now' = now, containerIPMap' = containerIPMap, reply' = reply,
           \A h \in Handlers : /\ pc'[h] = "idle" <=> pc[h] = "idle"
                               /\ pc'[h] = "done" <=> pc[h] = "done"
                               /\ pc[h] # "idle" => arg'[h].ip = arg[h].ip
    PROVE  UNCHANGED RC!absVars
<1>1. absCache' = absCache
  BY DEF absCache
<1>2. absRequest' = absRequest
  BY DEF absRequest
<1>3. absReply' = absReply
  BY DEF absReply, Done
<1> QED  BY <1>1, <1>2, <1>3 DEF RC!absVars

\* One request has been answered.
LEMMA OneAnswer ==
    ASSUME RefinementInv, NEW h \in Handlers, NEW r, Finish(h, r), arg' = arg,
           pc[h] \in Critical
    PROVE  absRequest' = absRequest /\ absReply' = [absReply EXCEPT ![h] = absAnswer(r)]
<1>1. /\ pc \in [Handlers -> Critical \cup {"idle", "lock", "done"}]
      /\ reply \in [Handlers -> Reply \cup {Nil}]
  BY DEF RefinementInv, Inv, TypeInv, TypeOK
<1>2. pc' = [pc EXCEPT ![h] = "done"] /\ reply' = [reply EXCEPT ![h] = r]
  BY DEF Finish
<1>3. absRequest' = absRequest
  BY <1>1, <1>2 DEF absRequest, Critical
<1>4. absReply' = [absReply EXCEPT ![h] = absAnswer(r)]
  BY <1>1, <1>2 DEF absReply, Done
<1> QED  BY <1>3, <1>4

\* The initial state.
LEMMA InitSimulation == Init => RC!Init
<1> SUFFICES ASSUME Init PROVE RC!Init
  OBVIOUS
<1>1. \A a \in IPs : containerIPMap[a] = Nil
  BY DEF Init, NoScan, Addresses
<1>2. absCache = [a \in IPs |-> Nil]
  BY <1>1 DEF absCache
<1>3. absRequest = [h \in Handlers |-> Nil] /\ absReply = [h \in Handlers |-> Nil]
  BY DEF Init, absRequest, absReply, Done
<1> QED  BY <1>2, <1>3 DEF Init, RC!Init
-----------------------------------------------------------------------------
\* The steps that answer, renew or resynchronise are steps of RoleCache.
LEMMA CachedSimulates ==
    ASSUME RefinementInv, NEW h \in Handlers, Cached(h) PROVE RC!Serve(h)
<1>1. /\ pc[h] \in Critical /\ pc[h] # "idle" /\ Entry(h) # Nil
      /\ ~RequiresRefresh(Entry(h)) /\ Finish(h, ReplyFrom(Entry(h)))
      /\ now' = now /\ arg' = arg /\ containerIPMap' = containerIPMap
  BY DEF Cached, Critical, cacheVars
<1>2. /\ RC!Waiting(h) /\ absCache[absRequest[h]] = absEntry(Entry(h))
      /\ Entry(h) \in ContainerInfo /\ EntryConsistent(Entry(h)) /\ FromEnv(Entry(h))
      /\ now \in Nat
  BY <1>1, AbstractState, AbstractLookup DEF RefinementInv, Inv, TypeInv, TypeOK
<1>3. absEntry(Entry(h)) # Nil /\ ~RC!Due(absEntry(Entry(h)))
  BY <1>1, <1>2, AbstractEntry
\* An entry that is neither in error nor due has credentials.
<1>4. Entry(h).err = "none" => Entry(h).creds # Nil
  <2> SUFFICES ASSUME Entry(h).err = "none", Entry(h).creds = Nil PROVE FALSE
    OBVIOUS
  <2>1. Entry(h).lastUpdated = ZeroTime /\ Entry(h).role # NoRole
    BY <1>2 DEF EntryConsistent
  <2>2. now - ZeroTime > credentialsRefreshPeriod
    BY <1>2, ServiceAssumption DEF ZeroTime
  <2> QED  BY <1>1, <2>1, <2>2 DEF RequiresRefresh
<1>5. absAnswer(ReplyFrom(Entry(h))) = RC!Answer(absEntry(Entry(h)))
  BY <1>2, <1>4, AbstractAnswer
<1>6. /\ absRequest' = absRequest
      /\ absReply' = [absReply EXCEPT ![h] = absAnswer(ReplyFrom(Entry(h)))]
  BY <1>1, OneAnswer
<1>7. absCache' = absCache
  BY <1>1 DEF absCache
<1> QED  BY <1>1, <1>2, <1>3, <1>5, <1>6, <1>7 DEF RC!Serve

\* A refresh, with or without new credentials, is the abstract cache's Renew.
LEMMA RefreshSimulates ==
    ASSUME RefinementInv, NEW h \in Handlers, NEW creds, NEW err, Refresh(h, creds, err),
           \/ creds = Nil /\ err = "assumeRole"
           \/ /\ err = "none" /\ creds \in Credentials /\ creds.role = Entry(h).role
              /\ creds.role \in Assumable /\ creds.expiration <= now + DurationSeconds
    PROVE  RC!Renew(h)
<1> DEFINE info == Entry(h)
           new == Outcome(info, creds, err)
           e == absEntry(info)
           x == IF creds = Nil THEN Nil ELSE creds.expiration
<1>1. /\ pc[h] \in Critical /\ pc[h] # "idle" /\ Finish(h, ReplyFrom(new))
      /\ containerIPMap' = [containerIPMap EXCEPT ![arg[h].ip] = new]
      /\ now' = now /\ arg' = arg
      /\ info # Nil /\ RequiresRefresh(info)
  BY DEF Refresh, Critical, RefinementInv, Inv, TypeInv, Assuming
<1>2. /\ RC!Waiting(h) /\ absCache[absRequest[h]] = e
      /\ info \in ContainerInfo /\ EntryConsistent(info) /\ FromEnv(info)
      /\ absRequest[h] = arg[h].ip /\ arg[h].ip \in IPs
      /\ now \in Nat /\ containerIPMap \in [Addresses -> ContainerInfo \cup {Nil}]
  BY <1>1, AbstractState, AbstractLookup DEF RefinementInv, Inv, TypeInv, TypeOK
<1>3. e # Nil /\ RC!Due(e)
  BY <1>1, <1>2, AbstractEntry
<1>4. info.role \in Roles
  BY <1>1, <1>2 DEF RequiresRefresh, ContainerInfo
<1>5. new \in ContainerInfo
  BY <1>2 DEF Outcome, ContainerInfo
<1>6. EntryConsistent(new)
  BY <1>2, <1>4, RefreshConsistent
<1>7. /\ new.id = info.id /\ new.role = info.role /\ new.err = err /\ new.creds = creds
      /\ new.lastUpdated = now
  BY <1>2 DEF Outcome, ContainerInfo
<1>8. FromEnv(new)
  BY <1>2, <1>4, <1>7, ServiceAssumption DEF FromEnv
<1>9. new # Nil /\ (err = "none" => creds # Nil)
  BY <1>5, NilAssumption
<1>10. absEntry(new) = [owner |-> e.owner, expiration |-> x, renewed |-> now]
  <2> HIDE DEF new, info
  <2> QED  BY <1>7 DEF absEntry
<1>11. x \in {Nil} \cup {t \in 0..(now + DurationSeconds) : verdict[e.owner] \in Assumable}
  <2>1. CASE creds = Nil
    BY <2>1
  <2>2. CASE creds # Nil
    <3>1. verdict[e.owner] = info.role
      BY <1>2, <1>4, VerdictOfEntry, ServiceAssumption DEF absEntry
    <3>2. creds \in Credentials /\ creds.expiration \in Nat
      BY <2>2 DEF Credentials
    <3> HIDE DEF info, e
    <3> QED  BY <1>2, <2>2, <3>1, <3>2, ServiceAssumption DEF info
  <2> QED  BY <2>1, <2>2
<1>12. absAnswer(ReplyFrom(new)) = RC!Answer(absEntry(new))
  BY <1>5, <1>6, <1>7, <1>8, <1>9, AbstractAnswer
<1>13. /\ absRequest' = absRequest
       /\ absReply' = [absReply EXCEPT ![h] = absAnswer(ReplyFrom(new))]
  BY <1>1, OneAnswer
<1>14. absCache' = [absCache EXCEPT ![absRequest[h]] = absEntry(new)]
  <2> HIDE DEF new
  <2> QED  BY <1>1, <1>2, <1>9 DEF absCache, Addresses
<1> HIDE DEF new, e, x, info
<1> QED
  BY <1>1, <1>2, <1>3, <1>10, <1>11, <1>12, <1>13, <1>14 DEF RC!Renew

\* The end of a sync is the abstract cache's Resync.
LEMMA SyncSimulates ==
    ASSUME RefinementInv, NEW h \in Handlers, SyncDone(h) PROVE RC!Resync(h)
<1>1. /\ pc[h] = "inspect" /\ containerIPMap' = scan[h].ipMap
      /\ pc' = [pc EXCEPT ![h] = "relookup"]
      /\ now' = now /\ arg' = arg /\ reply' = reply
  BY DEF SyncDone, Goto
<1>2. /\ RC!Waiting(h) /\ absCache[absRequest[h]] = Nil
  BY <1>1, AbstractState, AbstractLookup DEF RefinementInv, Missing, Critical
<1>3. /\ pc \in [Handlers -> Critical \cup {"idle", "lock", "done"}]
      /\ scan[h] \in ScanType
  BY DEF RefinementInv, Inv, TypeInv, TypeOK
<1>4. ASSUME NEW a \in IPs, scan[h].ipMap[a] # Nil
      PROVE  /\ absCache'[a] \in RC!FreshEntry
             /\ absCache'[a].owner = scan[h].ipMap[a].id
             /\ scan[h].idMap[scan[h].ipMap[a].id] = a
  <2> DEFINE info == scan[h].ipMap[a]
  <2>1. /\ info \in ContainerInfo /\ info = NewContainerInfo(info.id)
        /\ scan[h].idMap[info.id] = a
    BY <1>3, <1>4 DEF ScanType, Addresses, RefinementInv, Inv, CacheInv, ScanConsistent
  <2>2. info.id \in Containers /\ info.creds = Nil /\ info.lastUpdated = ZeroTime
    <3>1. info.id \in Containers
      BY <2>1 DEF ContainerInfo
    <3>2. NewContainerInfo(info.id).creds = Nil /\ NewContainerInfo(info.id).lastUpdated = ZeroTime
      BY <3>1, NewInfoType
    <3> HIDE DEF info
    <3> QED  BY <2>1, <3>1, <3>2
  <2>3. absCache'[a] = absEntry(info)
    BY <1>1, <1>4 DEF absCache
  <2> HIDE DEF info
  <2>4. absEntry(info) \in RC!FreshEntry /\ absEntry(info).owner = info.id
    BY <2>2 DEF absEntry, RC!FreshEntry, RC!Entry
  <2> QED  BY <2>1, <2>3, <2>4 DEF info
<1>5. ASSUME NEW a \in IPs, scan[h].ipMap[a] = Nil PROVE absCache'[a] = Nil
  BY <1>1, <1>5 DEF absCache
<1>6. absCache' \in [IPs -> RC!FreshEntry \cup {Nil}]
  <2>1. \A a \in IPs : absCache'[a] \in RC!FreshEntry \cup {Nil}
    BY <1>4, <1>5
  <2> QED  BY <2>1 DEF absCache
<1>7. \A a, b \in IPs : absCache'[a] # Nil /\ absCache'[a] = absCache'[b] => a = b
  BY <1>4, <1>5
<1>8. absRequest' = absRequest
  BY <1>1, <1>3 DEF absRequest
<1>9. absReply' = absReply
  BY <1>1, <1>3 DEF absReply, Done
<1> QED  BY <1>1, <1>2, <1>6, <1>7, <1>8, <1>9 DEF RC!Resync
-----------------------------------------------------------------------------
\* Every step is one that callers may see, or one they do not see.
LEMMA StepSimulation == RefinementInv /\ [Next]_vars => [RC!Next]_RC!absVars
<1> SUFFICES ASSUME RefinementInv, [Next]_vars PROVE RC!Next \/ UNCHANGED RC!absVars
  OBVIOUS
<1>1. /\ pc \in [Handlers -> Critical \cup {"idle", "lock", "done"}]
      /\ arg \in [Handlers -> Request \cup {Nil}]
      /\ reply \in [Handlers -> Reply \cup {Nil}]
      /\ now \in Nat
      /\ \A h \in Handlers : pc[h] # "idle" => arg[h] # Nil
  BY DEF RefinementInv, Inv, TypeInv, TypeOK, Serving
<1>2. ASSUME NEW h \in Handlers, NEW a \in IPs, Call(h, a) PROVE RC!Ask(h, a)
  <2>1. /\ pc[h] = "idle" /\ pc' = [pc EXCEPT ![h] = "lock"] /\ arg'[h].ip = a
        /\ \A k \in Handlers : k # h => arg'[k] = arg[k]
        /\ now' = now /\ containerIPMap' = containerIPMap /\ reply' = reply
    BY <1>1, <1>2 DEF Call, Goto, cacheVars
  <2>2. absRequest[h] = Nil /\ absRequest' = [absRequest EXCEPT ![h] = a]
    BY <1>1, <2>1 DEF absRequest
  <2>3. absReply' = absReply
    BY <1>1, <2>1 DEF absReply, Done
  <2> QED  BY <2>1, <2>2, <2>3 DEF RC!Ask, absCache
<1>3. ASSUME NEW h \in Handlers, NotFound(h) \/ InspectContainerPanics(h) PROVE RC!Unknown(h)
  <2>1. PICK e \in {"notFound", "panic"} : Finish(h, ErrorReply(e))
    BY <1>3 DEF NotFound, InspectContainerPanics
  <2>2. /\ pc[h] \in Critical /\ pc[h] # "idle" /\ Entry(h) = Nil
        /\ now' = now /\ arg' = arg /\ containerIPMap' = containerIPMap
    BY <1>3 DEF NotFound, InspectContainerPanics, Critical, RefinementInv, Missing, cacheVars
  <2>3. absAnswer(ErrorReply(e)) = [what |-> e, expiration |-> Nil]
    BY DEF absAnswer, ErrorReply
  <2>4. /\ absRequest' = absRequest
        /\ absReply' = [absReply EXCEPT ![h] = [what |-> e, expiration |-> Nil]]
    BY <2>1, <2>2, <2>3, OneAnswer
  <2>5. RC!Waiting(h) /\ absCache[absRequest[h]] = Nil
    BY <2>2, AbstractState, AbstractLookup
  <2> QED  BY <2>2, <2>4, <2>5 DEF RC!Unknown, absCache
<1>4. ASSUME NEW h \in Handlers, AssumeRole(h) PROVE RC!Renew(h)
  <2>1. PICK t \in checkedAt[h]..now :
          Refresh(h, [role |-> Entry(h).role, expiration |-> t + DurationSeconds], "none")
    BY <1>4 DEF AssumeRole
  <2> DEFINE creds == [role |-> Entry(h).role, expiration |-> t + DurationSeconds]
  <2>2. t \in Nat /\ t <= now /\ Entry(h).role \in Roles /\ creds.role \in Assumable
    BY <1>4, <2>1, ServiceAssumption
       DEF AssumeRole, RefinementInv, Inv, TypeInv, TypeOK
  <2>3. creds \in Credentials /\ creds.expiration <= now + DurationSeconds
    BY <1>1, <2>2, ServiceAssumption DEF Credentials
  <2>4. creds.role = Entry(h).role /\ Refresh(h, creds, "none")
    BY <2>1
  <2> HIDE DEF creds
  <2> QED  BY <2>2, <2>3, <2>4, RefreshSimulates
<1>5. ASSUME NEW h \in Handlers, AssumeRoleFails(h) PROVE RC!Renew(h)
  BY <1>5, RefreshSimulates DEF AssumeRoleFails
<1>6. ASSUME NEW h \in Handlers, Return(h) PROVE RC!Take(h)
  <2>1. /\ pc[h] = "done" /\ pc' = [pc EXCEPT ![h] = "idle"]
        /\ arg' = [arg EXCEPT ![h] = Nil] /\ reply' = [reply EXCEPT ![h] = Nil]
        /\ now' = now /\ containerIPMap' = containerIPMap
    BY <1>6 DEF Return, Goto, cacheVars
  <2>2. absReply[h] # Nil
    BY <2>1, AbstractState DEF Done
  <2>3. absRequest' = [absRequest EXCEPT ![h] = Nil]
    BY <1>1, <2>1 DEF absRequest
  <2>4. absReply' = [absReply EXCEPT ![h] = Nil]
    BY <1>1, <2>1 DEF absReply, Done
  <2> QED  BY <2>1, <2>2, <2>3, <2>4 DEF RC!Take, absCache
<1>7. ASSUME NEW h \in Handlers,
             \/ Acquire(h) \/ Due(h) \/ Miss(h) \/ ListContainers(h) \/ ListContainersFails(h)
             \/ \E c \in Containers : InspectContainer(h, c) \/ InspectContainerFails(h, c)
      PROVE  UNCHANGED RC!absVars
  <2>1. now' = now /\ containerIPMap' = containerIPMap /\ reply' = reply /\ arg' = arg
    BY <1>7 DEF Acquire, Due, Miss, ListContainers, ListContainersFails, InspectContainer,
       InspectContainerFails, cacheVars, localVars
  <2>2. \A k \in Handlers : /\ pc'[k] = "idle" <=> pc[k] = "idle"
                            /\ pc'[k] = "done" <=> pc[k] = "done"
    BY <1>1, <1>7 DEF Acquire, Due, Miss, ListContainers, ListContainersFails,
       InspectContainer, InspectContainerFails, Goto
  <2> QED  BY <2>1, <2>2, Stutter
<1>8. CASE DockerStep
  <2>1. now' = now /\ containerIPMap' = containerIPMap /\ reply' = reply /\ pc' = pc
    BY <1>8 DEF DockerStep, cacheVars
  <2>2. \A k \in Handlers : pc[k] # "idle" => arg'[k].ip = arg[k].ip
    BY <1>1, <1>8, DockerKeepsArgs DEF RefinementInv, Inv, TypeInv
  <2> QED  BY <2>1, <2>2, Stutter
<1>9. CASE Tick
  <2>1. /\ now' = now + 1 /\ containerIPMap' = containerIPMap /\ reply' = reply
        /\ pc' = pc /\ arg' = arg
    BY <1>9 DEF Tick, cacheVars, localVars
  <2>2. RC!TimePasses
    BY <2>1 DEF RC!TimePasses, absCache, absRequest, absReply, Done
  <2> QED  BY <2>2 DEF RC!Next
<1>10. CASE Restart
  <2>1. /\ \A a \in IPs : containerIPMap'[a] = Nil
        /\ \A h \in Handlers : pc'[h] = "idle"
        /\ now' = now
    BY <1>10 DEF Restart, NoScan, Addresses
  <2>2. /\ absCache' = [a \in IPs |-> Nil]
        /\ absRequest' = [h \in Handlers |-> Nil] /\ absReply' = [h \in Handlers |-> Nil]
    BY <2>1 DEF absCache, absRequest, absReply, Done
  <2> QED  BY <2>1, <2>2 DEF RC!Crash, RC!Next
<1>11. CASE UNCHANGED vars
  BY <1>11, Stutter DEF vars, cacheVars, localVars
<1>12. ASSUME NEW h \in Handlers, Step(h) PROVE RC!Next \/ UNCHANGED RC!absVars
  BY <1>3, <1>4, <1>5, <1>6, <1>7, <1>12, CachedSimulates, SyncSimulates DEF Step, RC!Next
<1> QED
  BY <1>2, <1>7, <1>8, <1>9, <1>10, <1>11, <1>12 DEF Next, RC!Next

\* RoleForIP is linearizable: with its remote calls, failures, panics and crashes it
\* behaves towards its callers as an atomic table of entries (container.go:72-164).
THEOREM RoleCacheImplemented == Spec => ImplementsRoleCache
<1> QED
  BY InitSimulation, StepSimulation, RefinementInvariance, PTL
     DEF Spec, ImplementsRoleCache, RC!Spec
=============================================================================
