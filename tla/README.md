# Verification of ec2metaproxy

ec2metaproxy runs on an EC2 instance beside docker and stands in for the
instance metadata service (169.254.169.254) towards the containers.  A request
for IAM credentials is answered with those of a role of the *container's* own,
which the proxy assumes through STS; everything else is forwarded to the real
service.  This directory holds TLA+ models of the program and of the two
vendored libraries it cannot run without (seelog, kingpin) with the part of a
third that it uses (goamz), the TLC runs that check them on small instances, and TLAPS proofs for
instances of every size.  Line numbers refer to the repository's files under
`src/`, those of seelog, goamz and kingpin to
`src/Godeps/_workspace/src/github.com/`; `PROJECT.json` maps each definition to
the lines it models.

## 1. The system

| Part | State | Operations | Talks to |
|---|---|---|---|
| Role cache, `container.go` (`ContainerService`), `role.go` | `containerIPMap` (address → `ContainerInfo`), `containerIDMap` (id → address), one mutex | `RoleForIP`, `containerForIP`, `syncContainers`, `RequiresRefresh`, `AssumeRole` | docker, STS |
| Session names, `container.go:178-213` | none | `generateSessionName` | – |
| Role ARNs and the credentials path, `role.go:12-51`, `main.go:206-232` | none | `NewRoleArn`, the comparison of role name and subpath | – |
| Metadata handler, `main.go` | per request: `LogResponseWriter.Status`, the forwarded body | `handleCredentials`, the forwarding handler, `logHandler` | role cache, real metadata service |
| Start-up, `main.go:235-285` | default role, `aws.Auth` | `main`, the flags, `NewContainerService`, the loggers | instance credentials, kingpin, seelog |
| Instance credentials, goamz | `Auth`, copied by value into the service and into every `sts.STS` | `GetAuth`, `EnvAuth`, `Auth.Token`, the retrying client | real metadata service |
| Loggers, seelog | `Current`, a queue and three mutexes per asynchronous logger | the package functions, `Flush`, `ReplaceLogger`, the consumers | dispatchers |
| Dispatchers and writers, seelog | buffers, open files and connections, rolls and archives | `Dispatch`, `Flush`, `Close`, `Write`, a roll | files, network |
| Configuration, formats and patterns, seelog | none that lasts | from an XML tree to a logger, from a format to its verbs | – |
| Command line, kingpin | the values of flags and arguments | `Parse` | – |
| Docker client (vendored), docker daemon | the running containers, their addresses | list, inspect | – |
| Firewall script; image and dependency files; units, assertions, docker test helpers | – | – | – |

**How they interact.**  `net/http` runs each request in a goroutine of its own:
`logHandler` → `handleCredentials` → `RoleForIP(clientIP)`.  The client's address
is the only thing by which the proxy knows a container.  `RoleForIP` takes the
mutex, looks the address up, on a miss lists and inspects all running containers
and replaces both maps, renews the entry through `AssumeRole` when it is due, and
releases the mutex in a `defer`.  So docker and STS are called *under the lock*,
while containers come and go, credentials expire and other requests queue up.
`AssumeRole` signs with a copy of the credentials that `main` found at start-up,
which the copy renews for itself.  All of them log: every request passes through
seelog's package mutex, and its messages wait in a queue that a goroutine of
seelog's empties into a tree of dispatchers and writers.  `main` flushes when it
ends.

**What is hard here** (each at its line under `hazards` in `PROJECT.json`):

- the cache trusts an address for as long as it is in the map, docker may give it
  to another container (`container.go:99`);
- containers stop, vanish or change address between `ListContainers` and each
  `InspectContainer` of one sync (`:113-160`);
- the check that an entry is due, the remote call and the three assignments of
  its outcome must be one atomic step (`:83-88`); a failure must be remembered for
  30 seconds and not longer (`:44`), credentials must be checked at every request;
- a sync throws away everybody's entries, and a request from an address that
  belongs to no container causes one every time (`:162`);
- a run-time panic in the middle of the critical section is recovered far above
  it (`main.go:149`), so that the lock must be released on the way and one
  response, with one line in the log, must still come of it;
- everyone waits for one lock whose holder does remote calls without a timeout;
- the instance's credentials lapse while requests are signed with copies of them,
  and `Auth.Token` ignores the error of a renewal (`goamz/aws/aws.go:182-190`);
- a user's flush, a queue that overflows and the consumer all empty one queue, and
  `ReplaceLogger` closes a logger that others may be about to use;
- one failure in the middle of a roll, of a flush or of a walk of the dispatchers,
  or the death of the process there, must not cost other messages than its own;
- bufio keeps its first error, a connection shows that it is broken a write late;
- texts: cutting two names to a limit, indexing a path by the length of a name,
  verbs that begin with other verbs, asterisks, flags that take the word after them.

**What makes each part correct.**

- *Role cache*: one goroutine at a time in the body; entries never mix an error
  with credentials or hold another role's; a container gets the role it declares
  and no other, or a refusal for what is wrong with its declaration; credentials
  returned are there and had not expired when looked at; nothing is renewed
  twice or early; seen from outside the whole is an atomic table; every request
  is answered, and after failures service resumes.
- *Session names*: never longer than STS takes, valid characters only, nothing
  cut needlessly, neither name crowded out.
- *Role names*: the ARN splits at its last inner slash, the listed name is
  served, a longer one is another role's, a slash after it is ignored.
- *Handler*: one response and one log line per request, the status logged is the
  status sent, credentials only where they were asked for and never out of the
  real service's answer, failures show.
- *Instance credentials*: no request is signed with a mixture or with what lapses
  on the way, no failed renewal outlives its call, the attempts are counted.
- *Loggers*: no message twice, lost or out of order, none to closed writers; what
  a flush found is written when it returns; what nobody flushes is written too.
- *Writers*: whatever fails, messages are in a buffer, a file or the archive, in
  order, and a bounded number of rolls remains.
- *Texts*: formats, patterns, configurations and command lines are read as what
  they say.

## 2. Modules

| Module | Models |
|---|---|
| `Docker` | external: containers that start and stop, on the bridge network or the host's, and own an address; `ReuseAddresses` says whether docker may give an address to another container than the one that had it |
| `ContainerService` | EXTENDS `Docker`; `RoleForIP` and all it calls |
| `RoleCache` | abstract: what `RoleForIP` promises its callers, without lock, docker or STS |
| `RoleCacheRefinement` | the mapping from `ContainerService` to `RoleCache` |
| `ContainerServiceProofs` | the inductive invariant and the theorems about `ContainerService`, and the proof that the mapping is one |
| `SessionName` | `generateSessionName` |
| `RoleNames` | `NewRoleArn` and the part of `handleCredentials` after `RoleForIP` |
| `TextsProofs` | the theorems about `SessionName`, `RoleNames`, `LogConfig` and `Kingpin` |
| `MetadataHandler`, `MetadataHandlerProofs` | `main.go`'s handlers, composed with `RoleCache`, and the theorems about them |
| `InstanceAuth`, `InstanceAuthProofs` | goamz' `GetAuth`, `Auth.Token` and the request of `AssumeRole`, and the theorems about them |
| `AsyncLogger`, `AsyncLoggerProofs` | seelog's package functions, the loggers, their queues and consumers, and the theorems about them |
| `LogDispatch` | what one message, flush or close does in the tree of dispatchers |
| `LogWriters`, `LogWritersProofs` | a buffered writer, a file writer, a connection writer, and the theorems about them |
| `RollingFile`, `RollingFileProofs` | the rolling file writer, by size and by date, and the theorems about it |
| `LogOutput`, `LogOutputProofs` | EXTENDS `LogDispatch`; its dispatchers with two writers of `LogWriters` and three of `RollingFile` behind them, of any options; the theorems about the dispatchers and about this composition |
| `LogConfig` | from the tree of a configuration's elements to a logger |
| `LogFormat`, `LogPattern` | formats and their verbs; the patterns of exceptions |
| `Kingpin` | the command line, from words to values |
| `MC*` | small instances for TLC; `MCLogOutput` is that of `LogOutput`, `MCTexts` holds those of the six modules about texts, `MCLogDocuments` the documents of `LogConfig` |

### `ContainerService`

*Variables.*  `containerIPMap`, `containerIDMap` and `lock` are the fields of
the Go struct; `pc`, `arg`, `scan`, `checkedAt` and `reply` are each goroutine's
place in `RoleForIP`, its argument, `syncContainers`' local maps with the ids
still to inspect, the time of its last `RequiresRefresh`, and what it returned.
`now` is the clock; `restarts` counts crashes.  Two pieces are history, and no
guard of the service reads them: `arg[h].who`, the container that waits for the
answer, and `tenants`, every container that had an address (docker's guard against
reuse reads that one).

*Actions.*  A step is the code between two points where another party can be
observed: the lock, a reading of the clock, a remote call.

| Action | Code |
|---|---|
| `Call`, `Return` | `main.go:197-204`: the call of `RoleForIP` and its result |
| `Acquire` | `lock.Lock()`, `container.go:73` |
| `Cached`, `Due` | the entry is there; `RequiresRefresh` decides (`:82-84`) |
| `Miss`, `ListContainers`, `ListContainersFails` | `:99-129` |
| `InspectContainer`, `InspectContainerFails`, `InspectContainerPanics` | one round of the loop `:131-160`; any order, since docker lists in any order |
| `SyncDone` | the two assignments `:162-163` |
| `NotFound` | `:103-108` |
| `AssumeRole`, `AssumeRoleFails` | `role.go:68-88` with `container.go:84-95`: the outcome, the three assignments, the reply and the deferred unlock |
| `Restart` | the process dies and begins with empty maps |
| `DockerStep`, `Tick` | the daemon and the clock, at any moment |

`Finish` is every way out of `RoleForIP`: the reply, and the deferred `Unlock`.
A list that fails goes on with the old maps, exactly as `containerForIP` does.  An
inspection fails when docker does or the container is gone; a stopped container
that docker still knows is recorded under the empty address, `NoIP`, as are
host-networked ones (which therefore overwrite each other).  STS may have issued
credentials at any moment between the call and its return, and refuses roles
outside `Assumable`.  Environments are the sequences of values that the `IAM_ROLE=`
entries give; other entries do not matter to the code.  Go's `time.Time{}` is
`ZeroTime`, far enough in the past for every period.  Of an ARN only whether it
is well formed matters here (`RoleNames` looks inside).

*Left out*: log texts, access keys and tokens (credentials are their role and
expiry), the ids' short form and the session name in an entry (`SessionName` has
it), the instance's own credentials (a failing `AssumeRole` stands for theirs).

### `RoleCache`

A table of one entry per address, with the owner, the expiry of its credentials and
the time of the last renewal.  A client asks; `Serve` answers from an entry that
is not due, `Renew` renews a due one and answers, `Resync` makes the table anew
when the client's address is not in it, `Unknown` refuses.  Role, error and
credentials of an entry are *functions* of owner and expiry there, so that the
refinement also says that the code's four fields never contradict each other.

### `SessionName`, `RoleNames`

`SessionName` is the arithmetic and the cuts of `container.go:185-213` over opaque
characters that remember where they came from.  `RoleNames` parses every ARN ending
up to a length over the alphabet `/`, `:`, two letters, and asks for every subpath
up to a length; `NotTheRole` is the condition of `main.go:210` with Go's index
translated as it stands (`subpath[len(roleName)-1]` is the *last character of
the name*).

### `MetadataHandler`

`RoleForIP` is an instance of `RoleCache`, on the variables `now`, `cache`, `request`
and `answer`: the handler is composed with what callers are promised, and
`ContainerServiceProofs` shows that the service keeps it.  `w` is what `net/http` has sent
for a goroutine's request, `Status` the wrapper's field, `body` whether a
forwarded response is open, `line` what the log says.  `given` is history: whether the real service gave
the length of the body that is forwarded.

| Action | Code |
|---|---|
| `Accept` | `logHandler`'s writer and the routing by `credsRegex` (`main.go:142-146`, `:251-264`); a path whose decoded form is no URL any more is answered 500 by one route and panics in `NewGET` on the other |
| `PrecheckFails`, `PrecheckRefused`, `Precheck` | `:182-198`, the question to the real service and the call of `RoleForIP` |
| `Resync`, `Lookup`, `TakeAnswer` | `RoleForIP` goes on and returns a role, an error or a panic; `Respond` is `:206-232` |
| `ForwardFails`, `Forward`, `Copy` | `:266-281`: headers, status, then the body, which may break off |
| `Deferred` | the deferred function `:147-155`: a panic becomes a 500, the line is written |
| `Finish` | external: `net/http` sends what is left, and cuts the connection if a body broke off whose length it had announced (`Ended`) |

*Left out*: the rewriting of header names, the query string (which the proxy
drops, `:258`), the address in `RemoteAddr`, the JSON of the answer.

### `InstanceAuth`

`Auth` is `main`'s, `copy` that of the call at hand, `issued` the times at which the
real service made its credentials.  `GetAuth` looks in the environment and then
asks twice (`FetchRole`, `FetchCredentials`), each with `Retry` up to `MaxTries`
attempts; `environ` is the set of the halves of a key (`Halves`) that the environment gives, any of the four, and
`EnvAuth` puts each half into the `Auth` for itself, also where the other is missing; `ReturnAuth` ends it, for `main` with the panic of a start without
credentials, for `Token` by putting whatever it got into the copy, error or not.
`Token` decides about a renewal, then takes what is to be signed; `Answer` is
STS.  Only whose key, secret and token they are counts in credentials.

### `AsyncLogger`

A call is a list of `Parts` (`log`, `flush`, `close`, `install`, ...) that the
package functions and the methods of a logger are made of; each part is a row of steps between two
lock operations.  `pkgMutex` is `pkgOperationsMutex`; `m` holds two mutexes per
logger, since `asyncLogger` and its embedded `commonLogger` copy (`innerLogger`) lock
different ones; `L` is the queue's condition.  `LockPkg`, `LockM`, `LockL` take them,
`Push`, `Overflows`, `Drain`, `Dispatch`, `Remove` move messages, `RootFlush` and
`RootClose` are the dispatchers', `Install` assigns `Current`.  `Wait`, `Process`,
`Processed` and `Pause` are a consumer, of any of the three kinds; `AdaptiveInterval` is
the pause that an adaptive one computes.  `before` is history: what a flush has to
deliver.

### `LogDispatch`, `LogWriters`, `RollingFile`

`LogDispatch`: `work` is what the recursive `Dispatch`, `Flush` or `Close` has still to
do, in order; `Visit` puts a dispatcher's receivers in its place (`Expand`), `Write`,
`WriteFails` and `WritePanics` are a writer or custom receiver.  `FlushWriter` empties a buffer, `FlushFails` keeps it and
makes its writer `broken` for ever, as bufio does, and `FlushPanics` is a custom receiver's flush, or a writer's
behind a buffer, which nobody recovers; `held` are the writers with something in their buffers.  `Log` is
`commonLogger.log` with the table of unused levels and the exceptions.  `Under` is a node and all
below it.  `DispatchAssumption` has the nodes make a tree (`IsTree`), as the parser makes them: each
element of a configuration becomes a receiver of its own, in the list of the element around it
(`cfg_parser.go`).  `Receivers` of a dispatcher is that list; `WritersOf` and
`DispatchersOf` are the two that `createDispatcher` makes of it (`Those`).

`LogWriters`: three goroutines share a buffered writer by its mutex (`Write`, `Flush`,
the ticker's `Flush`), `Close` takes no mutex.  `FileWrite`, `ConnWrite` and their
failures are the inner writers, with what remains in their fields: a file that
could not be made leaves an interface that is not nil around a nil pointer.

`RollingFile`: one `Write` is a row of calls of the file system: `Create`, `Check`,
`History`, `Rename`, `Trim`, `RemoveArchive`, `ReadRolls`, `CreateZip`, `RemoveRoll`,
`AppendMessage`.  Each has its failure, and `Crash` may come between any two.  The code takes any
error of `Lstat` for a file that is not there, which is no failure of `Write` but one of its data: `CreateBlind` makes
the log anew, empty, and `TrimBlind` goes on without the archive, which `CreateZip` then overwrites.  `CreateFails` has
the three ways in which no file, or one of unknown size, is left behind.  `lost` is history: the messages
that these errors, and a replacement of the archive that is broken off (`BreakOff`), cost.  Names are
numbers in the order of their tails.

### `LogConfig`, `LogFormat`, `LogPattern`, `Kingpin`

`LogConfig` has an element as a name, attributes and children, as `xmlNode` has.  The constructors of `cfg_parser.go`
call one another down the document.  A receiver is known by its path, the elements from the outputs to its own,
each with the format it was given; `making` is the path of the constructors that have begun, `done` how many
inner receivers the last one has, `result.tree` the paths of the receivers that are made.

| Action | Code |
|---|---|
| `Parse` | `configFromReaderWithConfig` up to `getOutputsTree` (`cfg_parser.go:195-242`) |
| `Construct` | one constructor, up to its inner receivers if it has some; `Fail` is its error, passed up through all callers |
| `Join` | the rest of a splitter, a filter or a buffered writer, whose inner receivers are made; `Buffered` is what the last one checks of its own |
| `Complete` | the rest of `configFromReaderWithConfig`, and the logger (`Logger`, `log.go:69-115`) |

`LogFormat` and `LogPattern` take one input to one result.  The first cuts
sequences over an alphabet of `%`, parentheses and letters; what a verb writes is
opaque.  The second is the recursive matcher.

`Kingpin` cuts one word per step (`Tokenize`), then reads one flag with its text, command or argument per
step (`ParseFlag`, `ParseCommand`, `ParseArg`, ...), group by group; `first` is the number of the
token that `ParseContext.Peek` returns, where the code keeps what is left of the tokens.  Values are kinds
with a set of texts each accepts, and `reading`, a history, says for each token that began a reading what it was
taken for.

## 3. What is checked

| Run (cfg) | Shows | Size |
|---|---|---|
| `role_cache` (`MCContainerService`) | types, `LockHeld`, `CacheConsistent`, `RepliesUsable`, `RepliesUnexpired`, `RoleMatchesRequester`, `NoEarlyRefresh`, and `ImplementsRoleCache`: all steps under the lock appear as one, a restart loses the table and no more; with failures and panics at any moment, if addresses are not reused | 2 goroutines, 2 containers, 2 addresses, clock 0..2, a restart; about half a million states |
| `role_cache_denied` (`MCContainerServiceDenied`) | `DeniedForAReason`: a refusal is due to the refused container's own environment | 4 containers, one host-networked, no default role, one role not assumable; 1.1 million states |
| `role_cache_live` (`MCContainerServiceLive`) | `EveryCallReturns`, `Recovers` | 2 goroutines, 1 container that comes and goes, an outage, a restart; 245,000 states |
| `role_cache_reuse` (`MCContainerServiceReuse`) | *violation* of `RoleMatchesRequester` when docker reuses an address | finding 1 |
| `metadata_handler` (`MCMetadataHandler`) | types with `BodiesClosed`, `LoggedAsSent`, `AnswersFit` (`CredentialsAsked`, `FailureShows`), `EveryRequestAnswered` | 2 goroutines, 1 address, statuses 200 and 404, clock 0..1, restarts; 373,000 states |
| `instance_auth` (`MCInstanceAuth`) | types and the count of attempts, `SignsWell` (`ArrivesInTime`, `SignedByOne`, `NeverUncredentialed`), `CallsRecover` (`CallsEnd`, `OutagePasses`) | 3 tries, margin 1, lifetime 3, clock 0..7, an outage that ends at 5 or never; 278,000 states |
| `async_logger` (`MCAsyncLogger`) | types with `QueueBounded`, `EachOnceInOrder`, `FlushDelivers`, `PackageOpen`, `EveryMessageWritten`, `EveryCallReturns` | 2 users, an adaptive and a synchronous logger, queue limit 1, 3 calls; 515,000 states |
| `async_logger_closed` (`MCAsyncLoggerClosed`) | *violation* of the comment at `seelog/logger.go:125` | finding 3 |
| `log_output` (`MCLogOutput`) | `ReachesAllowed` and `WalkEmpties` of the dispatchers, `Accounted` and `FlushedInTime` of the writers, `RollsInOrder` of rolling files | see below; 1.2 million states |
| `texts` (`MCTexts`) | `NameFits`, `NameIsFull`, `NamesShareFairly`, `NamesServed`, `NearestFormat`, `SilentOnlyIfOff`, `FormatTakenApart`, `MatchesAsMeant`, `CommandLineRead` | every input up to a size, see below; 725,000 states |
| `role_names_slash` (`MCRoleNamesSlash`) | *violation* of the comment at `main.go:211-213` | finding 2 |
| `command_line_strings` (`MCKingpinStrings`) | *violation* of `kingpin/README.md:25-26` | finding 4 |

A property of `LogOutput` or `MCTexts` is the conjunction of one module's properties
about one question: `NamesServed`, for example, is `ArnReassembles`,
`NameIsLastSegment`, `ListedNameServed` and `PrefixIsNotEnough` of `RoleNames`.  Those of `LogDispatch`, `SessionName`,
`RoleNames` and `LogConfig`, which these modules extend, are checked by their own names; those of the other modules, which they
instantiate, for the part that moves.

**Bounds, and why they are enough.**

*Role cache.*  The code has one kind of actor, the request
goroutine, all under one mutex: two of them show every interference there can be
between one in the body and one waiting or finished.  Two addresses let a request
for one replace the other's entry.  The environments are an empty entry before
two roles, an ill-formed role before a role, none at all, and one role: each
branch of `getRoleArnFromEnv` is taken.  Period and lifetime are 1, so that a clock
that stops at `MaxTime = 2` sees an entry fail and be retried, and another be granted,
expire and be renewed; in the denied run, where only the environment decides, the clock
stands still.  Docker and STS may fail before `OutageEnd`: in `role_cache` this is
until the clock stops, in the live run the first of its three instants, after
which recovery has to show.  `MaxRestarts` is 1 where recovery or the loss of the
table is the question; elsewhere a restart only leads to an initial state with a
later clock.  Goroutines and addresses are interchangeable, and their permutations
are used as symmetry where no liveness property is checked.

*Handler.*  Requests share nothing but the cache: two goroutines at one address,
every route and subpath, one status that is 200 and one that is not.
*Instance credentials.*  Seven instants are two lifetimes and a margin, so that
start-up credentials lapse, a renewal fails, and a later one succeeds.
*Loggers.*  A queue limit of 1 makes the second message overflow; with two users
and two loggers a replacement meets a message on its way to each of them.  A consumer
of the adaptive logger can take every step of the others': a loop's is one without
pauses, a timer's one with equal ones.
*Writers.*  A buffer of two and messages too big for it, failures that come once
and again, before and after a close; rolls of two messages with an archive and one
roll, with any number, and by date with two, and one or two deaths of the process.
The dispatch tree has a filter inside a filter, a custom receiver and two exceptions of which
the first match counts.
*Texts.*  Session names: the code's own limits 32 and 6 and all pairs of name lengths up to 30.
ARN endings up to 6 and subpaths up to 4 characters over `/`, `:` and two letters.  Formats, patterns
and strings up to 6 characters, where two verbs, a parameter, or three asterisks
with text between them have room.  Documents: each kind of receiver and each attribute, right and
wrong, at each depth at which the parser treats it differently.  Command lines up to 2 of all words
and up to 4 of a few, for applications with every kind of flag, argument and nested command.

The operators marked *Wrong on purpose* are copies of the operator that follows
them with a plausible slip; put in its place they make TLC report the property
they name.  They are no part of the model.

**Fairness.**

*Role cache.*  `FairSpec` adds: a goroutine with the lock goes on (`WF Step`), one
that waits for a lock that is freed again and again gets it (`SF Acquire`), the
clock goes on to its bound (`WF Tick`).  The first is the Go scheduler and the
assumption that docker and STS answer every call *somehow*; neither client sets a
timeout, so if a call never returns the lock is held for ever and nothing is
promised.  The second is what `sync.Mutex` gives to a waiter under a scheduler
that is not adversarial, and in its starvation mode for certain.  Nothing is
assumed of requests, containers or restarts: `Recovers` is about a container that
stays up and *keeps asking*.  The clock stops at `MaxTime` in the model only; after
that unexpired credentials are served for ever, which is service.

*Handler.*  `WF Step` for each goroutine, and `WF Lookup`: `RoleForIP` returns, which is
`EveryCallReturns` above.  A `Restart` cuts every connection, which ends a request too.
*Instance credentials.*  The program runs on and remote calls end (`WF Step`; the client of
the metadata service has a deadline of five seconds, that of STS has none, as above), and time passes.  `OutagePasses` is about a proxy that keeps
being asked after an outage that ends.
*Loggers.*  `WF Step` per user, `WF Consume` per consumer.  Weak fairness is enough
although they wait for mutexes: calls are bounded in the model, so that no waiter can be
overtaken for ever.  In the program they are not, and mutexes have to be fair for the
same conclusion, as above.
*Writers.*  Whoever holds the buffer's mutex goes on, and the ticker, which competes for
it, gets it in the end (`SF`).

## 4. What is proved

`ContainerServiceProofs`, for any sets of goroutines, containers, addresses and
roles, any environments, periods, bounds and default role:

- `Invariance`: `Spec => []Inv`, with `Inv` the conjunction of
  - `TypeInv` – the types, `LockHeld`, that a goroutine past `idle` has an argument,
    and that the entry `AssumeRole` is called for stays there and stays due until
    it returns.  This is where the mutex counts: no other goroutine's step can
    touch the maps meanwhile.
  - `CacheInv` – `CacheConsistent`, and the same for the maps `syncContainers` is
    still filling, which will become the cache in one step.
  - `Tenancy` – every entry belongs to a container that had that address at some
    time, its role and error follow from that container's environment, every
    request was sent by a tenant, and, *without reuse*, an address has one tenant
    at most.  `RoleMatchesRequester` is not inductive without it: nothing in the
    code links an entry to whoever has the address now.
  - `RepliesJustified` – a finished goroutine's reply is what a consistent entry of
    a tenant of its address gives, with credentials not expired when it looked.
    Entries may be replaced after the reply was made, so the reply must carry its
    own justification.
- From it `TypeCorrect`, `MutualExclusion`, `CacheIsConsistent`, `RepliesAreUsable`,
  `RepliesAreUnexpired`, and, from `TypeInv` and `CacheInv`, the action property
  `NoEarlyRefreshes`.
- `RolesMatchRequesters` and `DenialsHaveReasons` under the assumption
  `~ReuseAddresses`: finding 1 shows that they need it.

In the same module, `RoleCacheImplemented`, `Spec => ImplementsRoleCache`, which makes
`RoleForIP` linearizable.  `InitSimulation` maps the initial state; `StepSimulation` takes
each action of `Next` to the abstract step that callers see (`Call` to `Ask`, `Cached`
to `Serve`, both outcomes of `AssumeRole` to `Renew`, `SyncDone` to `Resync`, `NotFound`
and a panic to `Unknown`, `Return` to `Take`) or, by `Stutter`, to none.  It needs
`Inv` for the entries (their role and error must be those their container is
entitled to), and two facts more: a goroutine that lists or inspects still has no
entry for its address (`Missing`, the lock again), and one that is done has a reply
(`Answered`).  `RefinementAssumption` says that `Nil` and the names of refusals are not
values of the abstraction.

`TextsProofs`: `SessionNameFits`, `SessionNameIsFull`, `SessionNamesShareFairly`
for names of any length and every limit that leaves an even number of characters
for the two names, as 32 does.  With an odd number the code would exceed the limit
by one (the image name's half is rounded up before it is given what the container
name leaves), so that the assumption is needed, and a change of the constant
should be thought over.  `SessionNamesAreValid`: no name has a character that STS refuses.

`MetadataHandlerProofs`, for any number of requests at once and any addresses, containers,
roles, verdicts and statuses: `Inv` is
  - `ServiceInv`, that `RoleForIP` keeps unlapsed credentials, and answers with a role, only if AssumeRole
    grants it.  `AnswersFit` needs it, since the handler sends what it is told;
  - `HandlerInv`, which is `Fits` for each goroutine.  `LoggedAsSent` is about requests that
    are over; while one is served the wrapper's `Status` is the status already sent, or the 200
    that net/http will send, a handler that can still panic has sent nothing, and one on its way out has
    sent something that tells the client how it went, but for a forwarded body that breaks off: there the
    length must have gone out with the headers, so that `Ended` can show it.
`OneMoves` says that a step moves one goroutine, `HeadedIs` and `BodiedIs` what a header and a body make of a writer;
`HandlerStep` has a step for each action.  From it follow `TypesCorrect`, `LogsAsSent` and `AnswersAreFit`, and
`UsesService`, `Spec => RoleForIP!Spec`: the handler's use of the cache is what `RoleCache` allows, so that
the refinement above and the composition fit together.  `AnswersAreFit` does not say that every failure shows: a
forwarded body that breaks off, and whose length the real service had not given, looks whole.

`InstanceAuthProofs`, for any margin, lifetime and number of attempts: `Inv` says where each set of credentials may be.
Main's `Auth` carries the date of its token, the copy does when `Token` looks at it, and from there to STS it
is known to last longer than the margin from `checked` on, also where a renewal broke off and left a copy without a
date, and with a half of the environment's key at most.  A token is never without its key and secret (`OneSet`), but
either half of a key may be without the other.  This needs `Issues`, what the real service does: its newest credentials always outlast the margin.
`SignsWellAlways` and `TypesCorrect` follow.

Of role names, for texts of any length: `PathEndIs` finds the last inner slash (the greatest element of a set of numbers,
`GreatestIs`, comes from the well-foundedness of `<`), `NewRoleArnSplits` says what the two halves are, `NamesAreSplit` and
`NamesAreServed` are the two halves of `NamesServed`, which `RolesAreServed` states.
`RoleNamesAreTexts`: neither half has a colon, so that both come from one segment of the ARN.

Of configurations, for documents of any size, nesting and attributes: `ParserInvariance`, `Spec => []ConfigInv` for
`ConfigSpec`.  `NearestFormat` speaks of whole paths of a finished tree, so that its invariant has to follow the paths as they grow:
  - `Grown`: a path begins with the outputs' splitter, each receiver in it is inside one that nests, a first inner
    receiver is its element's first child, and each has the format of the nearest formatid so far (`FormatAt`).
    `GrowsSame` carries this from a path to its beginnings;
  - `InTree`: of the receivers above one that is made, each buffered writer has seen that its inner one is a writer of its
    own format, or is still being made (`Sound`).  The comparison comes in `Join`, long after the inner writer was
    made: without the second case the invariant does not hold on the way.
Once the tree is finished, the writers of a path are the last ones of it and share one format: in a buffered writer's place
there is always another writer of the same format below it (the outermost writer is found with `LeastIs`).  `FormatsAreNearest` is this, and
`SilentWhereOff` follows from `RootFits`, which every accepted document has passed, for each order and mixture of levels.

`TreesAreWhole` says that a logger gets the whole of its tree: the outputs, and inside each receiver all those its element names,
but for what a buffered writer does not use.  The constructors are a stack, and the tree is whole only when it is empty.  `TreeInv`
says what it lacks until then: each constructor was called by the one before it, for the child whose number it carries (`Called`),
and has in the tree all the children up to `done`, or up to the one being made (`Behind`).  In `Join` the last
child counts as made and the path without its end is the caller's, which is where the two fit together.
Its hypothesis is that elements are a tree as an XML parser makes one: a set `N` with the documents in it, each of whose elements has a
name and a sequence of elements of `N` for children (`Elements`).

Of command lines, for every application that `init` accepts, with commands to any depth, and every line: `LineInvariance`,
`CommandSpec => []LineInv`, a conjunction of
  - `Shape`: where each phase may be; the groups above the one that reads have commands, so that
    no argument of theirs was read, and a group that reads a command never stands before a flag;
  - `FirstTokens`: what the first word of a line that asks for help, and texts only, were cut into;
  - `SoFar`: every token before `first` is read as what it says, and the last of them whole: a flag that takes a text
    has moved `first` past it;
  - `Kept`: each flag and argument holds what was said of it (`Holds`), without its default while its group reads, with it
    from then on, and nothing at all if its group had no turn.  While flags are read, a flag is absent exactly
    if nothing was said of it: that is what makes its default its own;
  - `Required`: a required flag was given or is still missed, a required argument was given or was passed over;
  - `Helping`: a line with `--help` first has not left the program's flags, one with the command `help` first is in the
    program's group, or in that of `help`, and misses nothing.
The last case of an argument is the reason for `Stuck` in `Kept` and `Required`: one passed over for a flag is neither
given nor defaulted, but that flag is never read, and `Finish` refuses the line.  `SetHolds` is the step all of it rests on: a text that is
Set last makes a value hold one thing more, for each kind of value.  `LineStep` has a lemma for each action;
`CommandLinesAreRead` and `LineKeepsTypes` follow.  `KingpinAssumption` says that commands have groups and a group's flags
different names, that a program has no flag `help` of its own, and that `true` and `false` are Booleans.
TLC has checked `LineInv` on the command lines of `texts` (60,000 states).

`LogWritersProofs`, for buffers of every size and any number of messages and failures: `Queued` says that what has
arrived comes before what is in the buffer, and both before the message at hand; `Busy` who holds the mutex and that a
big message meets an empty buffer.  `MessagesKept` is `InOrder` and `HeldOrDelivered` from it.  `ConnectionLossBounded` is
`LossBounded` of a connection without a buffer, with an invariant of its own, `Costs`: every refused message was paid for by
a failure of the network, or by the one `Close`.  `LossBounded` alone is not inductive, since a connection that was closed,
and whose next write has not failed yet, owes a message (`Pending`).  `WritersAccount` is `Accounted`, all of it.

`RollingFileProofs`, for any bounds on sizes and rolls, by size and by date, with an archive and without, any failures of
the file system's calls and deaths between any two of them: `RollsInOrder` (`RollsKeepOrder`) and `TypeOK` (`FilesTypeOK`).
In the middle of a roll the last file may have its old name or its new one, and an archive that is being replaced is in
memory only, so that the four properties are far from inductive.  `NothingLost` and `OldestGoFirst` name what may be
lost (`lost`): the messages of a file or an archive on which `Lstat` failed, and those of an archive that was in memory
or being written when something failed.  `Inv` adds
  - `Types`, and `Place`: what each step of a `Write` can rely on, above all that an open file is the newest on the disk
    (`IsCurrent`).  How long it is the writer may not know, after an `Lstat` that failed;
  - `Known`: no message on the disk, or ever stored, is later than the last one written;
  - `Named`: by size, names are no greater than the number of Writes, and less while this one may still roll, as
    each makes one name at most.  So the next name is free, and free ones are newest: without it `Rename` might overwrite a roll;
  - `Listed`: the history read at the start of a roll is still the whole disk when files are removed by it;
  - `Zipping` and `InZip`: what is in the archive, and what is in memory to go there, is what the disk has under that
    name and older than something on the disk, and what is about to be removed is in it.  It is said of both, since
    an archive that was not seen is still there while its successor is in memory;
  - `Bounded`: the bound on the files, for the states between removal and append.
TLC checked it first on six small instances (by size and by date, archive or not, `maxRolls` 0 to 2, up to 1.2 million states).
`Sorted`, that sorting by rank gives each element once in rising order, and the lemmas on rising sequences are what
`History` and `Trim` rest on.

`LogOutputProofs`, for trees of every shape, any filters, writers, levels, rules and exceptions: `MessagesReachAllowed`,
`WalksEmpty` (an invariant and an action property) and `DispatchTypeOK`.  The walk keeps a stack, so the
properties at its end need one that speaks of its middle.  `Inv` says that
  - the nodes still to visit have nothing below them in common (`Apart`) and were come to through filters that allow
    the message (`Passed`): so each writer gets it once, and only if it may;
  - each writer that the message may reach has had it, has failed, or waits below a node still to visit
    (`Dispatching`); each that holds messages waits likewise during a flush, or has failed to flush (`Flushing`);
  - the close of a writer stands immediately behind its flush (`Paired`), so that when its turn comes it is empty or
    has just failed to flush (`Emptied`).
`WalksEmpty` therefore speaks of what is in the buffers *but for those that failed*: a broken writer keeps what it has.
What the steps need of the tree is proved from `IsTree`, with `Under` the least set that holds a node and its members'
receivers: every proof about it names a set that does (`UnderLeast`).  `NoCycle`, `OneLine` (of two nodes with something below
both, one is below the other) and `Siblings` are of this kind.  `UnusedIsNotAllowed` is about the table of unused levels.
TLC checked `Inv` on the tree of `MCLogOutput`.

In the same module, the composition: `OutputKeepsTypes`, `OutputIsAccounted` and `OutputRollsInOrder` are for every record of
options that fits the parts' assumptions (`OutputAssumption`).  A step of the whole is a step of one part (`OnePartMoves`), which
leaves the variables of the others alone, so that a behaviour of the whole is one of each part that moves
(`WritersMove`, `FilesMove`); the parts' theorems, as instances with those options, do the rest.

`AsyncLoggerProofs`, for any number of goroutines and loggers, each synchronous or with a consumer of any of the three
kinds, any queue limit and any number of messages.  `Inv` is
  - `Shapes`, the types, and for each place in a call what can be left of the call there (`Place`): with what a goroutine
    still has to do known, each of its steps can be followed on its own;
  - `Locked`: between `LockL` and `Unlock` the queue is its holder's, user or consumer.  All that follows rests on it;
  - `Queued`: no queue is longer than its limit, and a push happens only where there is room; a synchronous logger
    queues nothing; between `Dispatch` and `Remove` the first message of a queue is written already (`Taken`);
  - `Ordered`: `Log`, what is written followed by what is queued and not yet taken, has each goroutine's messages in the
    order of its calls, and none beyond what it has handed over.  `EachOnceInOrder`, which speaks of the written
    part only, is not inductive: draining would have to know what is queued.  Whoever drains, `Log` is the same
    before and after (`ChangesDrain`, `ChangesConsume`), and a message logged is its new last element (`ChangesLog`);
  - `Flushing`: what a flush found accepted stays accepted while it drains (`NothingLost`), is written when it comes to
    `RootFlush`, and is out when it returns.  That `Drain` must end with an empty queue, and does because nobody
    else can push meanwhile, is the lock again;
  - `Packaged`: whoever is in a package function holds `pkgMutex` and works on `Current`; a logger that replaces it
    is open and not another's replacement; `Current` is closed only while its closer holds the mutex and
    has the next one to install, and a closed logger's queue has only messages of its own methods.
`LoggersTypeOK`, `LoggersEachOnceInOrder`, `LoggersFlushDeliver` and `PackageStaysOpen` follow.  TLC has checked `Inv`
as an invariant of two instances, one of them with loggers of three kinds (2.3 million states).
`LoggerAssumption` says that goroutines are not named like loggers, since a queue's lock may be held by either.

Assumptions on the constants are the named `ASSUME`s of the modules, which TLC
evaluates on every run: sentinels (`Nil`, `NoRole`, `NoIP`) are not among the
values, environments are sequences, periods and bounds natural numbers.  The theorems about
`LogWriters`, `RollingFile`, `LogDispatch` and `LogOutput` have `WritersAssumption`, `RollingAssumption`, `DispatchAssumption` and
`OutputAssumption`, the conjunction of the three for each part, as their hypothesis; `MCLogOutput` assumes the last of its instance.
`DocumentsAssumption` says that an attribute has one word at least, which is what splitting a string gives.

**Only model-checked.**  All liveness (`EveryCallReturns`, `Recovers`, `EveryRequestAnswered`,
`CallsRecover`, `EveryMessageWritten`, `FlushedInTime`: fairness and ENABLED are out of the prover's
reach); `FormatTakenApart` and `MatchesAsMeant`, which say what the recursive definitions of `LogFormat` and `LogPattern`
compute (a module that declares a RECURSIVE operator cannot be proved about, and a recursive definition's value for
every input needs an induction theorem that takes an operator); `TextsTypeOK`, of the six text parts
together, for `LogFormat` and `LogPattern` (`SessionNamesAreValid`, `RoleNamesAreTexts`, `TreesAreWhole` and `LineKeepsTypes`
prove it of the others); and the four violations.
Where an argument needs no more than a least or a greatest number with a property (`LeastIs`, `GreatestIs`), it is proved.

## 5. Findings

1. **A reused address is answered with the former container's role**
   (`container.go:99`).  `containerForIP` resynchronises on a miss only.  TLC's trace:
   a container starts, asks and is served; it stops; another starts at the same
   address and asks; the entry is still there and its credentials are returned.
   `README.md:151-152` promises a container the role it specifies or the
   default one.  It lasts until some other address is missed.
2. **A role name followed by a slash is not found** (`main.go:210`).  The condition
   looks at the last character of the name, where the comment below it
   (`:211-213`) speaks of the one after it.
3. **A closed logger stays open** (`seelog/logger.go:125`).  The comment says that `closed` is
   true when all writers are closed and the logger is unusable.  `Close` closes the writers and
   never sets it: messages still reach closed writers, and the consumer of an
   asynchronous logger waits for ever.  `ReplaceLogger` holds the package mutex, so that
   the package functions do not meet it (`PackageOpen`); a caller that kept the logger does.
4. **A value that looks like a flag is no value** (`kingpin/args.go:43`).  kingpin's README (`:25-26`, on
   version 1.2.0) says that any value is passed through to a final `Strings()` argument, "values that look
   like flags" included.  The code stops at the first of them and returns an error, and
   `kingpin/app_test.go:124-129` asserts that error, so that the README is what is out of date.  `EveryTokenRead` is what
   the code does: only texts become arguments.

Seen while modelling, without a run of their own (the models do what the code does):

- an adaptive pause counts one message too few and so exceeds the maximum
  (`seelog/behavior_adaptivelogger.go:102`);
- an error of one receiver's `Close` leaves those after it unflushed and open
  (`seelog/dispatch_dispatcher.go:126-139`);
- after one failed flush a buffered writer drops every message without an error, since
  bufio's error stays and is not looked at (`seelog/writers_bufferedwriter.go:114`);
- a configuration that is refused after receivers were made for it closes none of them, against the comment at
  `seelog/cfg_parser.go:246-247`: the dispatcher that `:248` looks at is always nil.  Files and connections are opened at the
  first `Write` (`seelog/writers_filewriter.go:41-65`), so that no file is left open by it; a custom receiver is not
  closed, and the goroutine of a buffered writer that flushes periodically goes on;
- any error of `Lstat` is taken for a file that is not there: the log is then made anew, and what was in it lost
  (`seelog/writers_rollingfilewriter.go:202-214`), and an archive overwritten (`:238-267`);
- a renewal that fails signs with what half of a key the environment has, the secret without the access key included
  (`goamz/aws/aws.go:329-338`);
- a forwarded body that breaks off looks whole to the client if the real service gave no length: the error is
  logged, and the handler returns (`main.go:279`);
- a roll that fails after the file was closed leaves the rolling writer with a closed file
  (`seelog/writers_rollingfilewriter.go:307`), and while an archive is replaced its
  contents are in memory only (`:247`);
- a timer logger with interval 0 becomes a nil logger without an error: the code tests
  another variable (`seelog/log.go:86`);
- a doubled percent sign is made single before `Sprintf` sees it, which then takes it for a verb of its own
  (`seelog/format.go:133`); a parenthesis that is not closed panics (`:239`);
- of two overlapping occurrences of a pattern's text only the first is tried, so that `*aa` does not match
  `aaa` (`seelog/common_exception.go:181`);
- in kingpin, the default of an argument that takes all words is added to what was given
  (`kingpin/args.go:55`), a first word `help` suspends required flags (`kingpin/app.go:164`),
  commands of commands are never initialised (`:125`);
- the forwarding handler drops the query string (`main.go:258`).

## 6. Not modelled, and what is left

- *Start-up as one composition.*  `Init` and `Restart` of the modules say what a start does to each part; the
  order of its calls, with nothing running beside them, is not a module of its own.
- *Docker client*: only the two calls the proxy makes, as an answer, an error or an unusable answer; its HTTP
  exchange with the daemon, and its other commands, are not modelled.
- *Firewall script*: two calls of iptables; the packet filter is external.
- *seelog*: the logger that is disabled by configuration, console and SMTP writers, the callers' contexts
  (Go's stack), what the verbs write; the helpers of `internals_fsutils.go` that no writer calls.
- *kingpin*: usage texts.
- *Units, assertions, docker test helpers*: vendored code the proxy never runs, or runs in tests only.
  *Image and dependency files* have no behaviour at run time.
- *Proofs worth adding*: `PanicOnlyUnclosed` of `LogFormat`, if
  its loop over the characters is made steps as that of `LogConfig` is.
