---------------------------- MODULE AsyncLogger ----------------------------
(***************************************************************************)
(* The vendored seelog's loggers: the package functions (log.Info,         *)
(* log.Critical, log.Flush, log.ReplaceLogger) on the current logger, the  *)
(* methods of a logger called directly, and the goroutine by which an      *)
(* asynchronous logger empties its queue.  The dispatchers and writers     *)
(* behind a logger are one sequence of messages and how many of them have  *)
(* left the buffers.  Messages are at levels the logger uses.              *)
(***************************************************************************)
EXTENDS Integers, Sequences, Functions

CONSTANTS
    Users,         \* goroutines that log
    Loggers,       \* logger objects; a consumer goroutine goes by its logger's name
    Default,       \* the one the package starts with
    Kind,          \* of each logger: "sync", "loop", "timer" or "adaptive"
    Nil,
    MaxQueueSize,  \* 10000
    MinInterval, MaxInterval, CriticalMsgCount,   \* of an adaptive logger
    MaxMessages,   \* bound: messages a user logs
    MaxCalls       \* bound: calls of all users

ASSUME LoggerAssumption ==
    /\ Default \in Loggers
    /\ Nil \notin Users \cup Loggers /\ Users \cap Loggers = {}
    /\ Kind \in [Loggers -> {"sync", "loop", "timer", "adaptive"}]
    /\ MaxQueueSize \in Nat \ {0} /\ CriticalMsgCount \in Nat \ {0}
    /\ MaxMessages \in Nat
    /\ MinInterval \in Nat /\ MaxInterval \in Nat /\ MinInterval < MaxInterval

VARIABLES
    Current,       \* the logger of the package functions
    pkgMutex,      \* pkgOperationsMutex: who holds it
    m,             \* each logger's mutexes: a copy of it is its innerLogger
    L,             \* the lock of each queue
    msgQueue, closed,
    written,       \* what each logger's dispatchers have got
    flushed,       \* how many of these have left the buffers
    writersClosed, \* has RootDispatcher.Close been called?
    late,          \* messages dispatched to closed writers
    cpc,           \* the consumers
    interval,      \* their last pause
    pc, todo, lg, via, new,     \* the call at hand of each user
    before,        \* what its logger had accepted when its flush began
    sent, calls

packageVars == <<Current, pkgMutex>>
lockVars == <<m, L>>
queueVars == <<msgQueue, closed>>
writerVars == <<written, flushed, writersClosed, late>>
consumerVars == <<cpc, interval>>
callVars == <<pc, todo, lg, via, new, before, sent, calls>>
vars == <<packageVars, lockVars, queueVars, writerVars, consumerVars, callVars>>

Message == [user : Users, n : 1..MaxMessages, via : {"package", "logger"}]

Init ==
    /\ Current = Default
    /\ pkgMutex = Nil
    /\ m = [x \in Loggers \X {"outer", "inner"} |-> Nil]
    /\ L = [g \in Loggers |-> Nil]
    /\ msgQueue = [g \in Loggers |-> <<>>]
    /\ closed = [g \in Loggers |-> FALSE]
    /\ written = [g \in Loggers |-> <<>>]
    /\ flushed = [g \in Loggers |-> 0]
    /\ writersClosed = [g \in Loggers |-> FALSE]
    /\ late = {}
    /\ cpc = [g \in Loggers |-> IF Kind[g] = "sync" THEN "none" ELSE "ready"]
    /\ interval = [g \in Loggers |-> MinInterval]
    /\ pc = [u \in Users |-> "idle"]
    /\ todo = [u \in Users |-> <<>>]
    /\ lg = [u \in Users |-> Default]
    /\ via = [u \in Users |-> "package"]
    /\ new = [u \in Users |-> Default]
    /\ before = [u \in Users |-> {}]
    /\ sent = [u \in Users |-> 0]
    /\ calls = 0

\* What a logger's methods are made of; those of the other levels are Info's like.
Methods == [Info |-> <<"log">>, Critical |-> <<"log", "criticalFlush">>, Flush |-> <<"flush">>]

\* The same of the package functions.
Parts(call, g) ==
    CASE call \in DOMAIN Methods -> Methods[call]
      [] call = "UseLogger" -> <<"install", "flush">>
      [] call = "ReplaceLogger" /\ g = Default -> <<"flush", "install">>
      [] call = "ReplaceLogger" /\ closed[g] -> <<"install">>
      [] OTHER -> <<"flush", "close", "install">>

part(u) == Head(todo[u])

\* A logger's innerLogger is the object it was copied from, with a mutex of its own.
\* A synchronous logger is its own.
Mutex(u) ==
    <<lg[u], IF part(u) = "criticalFlush" /\ Kind[lg[u]] # "sync" THEN "inner" ELSE "outer">>

Msg(u) == [user |-> u, n |-> sent[u], via |-> via[u]]

Goto(u, l) == pc' = [pc EXCEPT ![u] = l]
-----------------------------------------------------------------------------
\* Nobody installs a logger that is installed, about to be, or closed.
Installable(g) ==
    /\ g # Current /\ ~writersClosed[g]
    /\ \A u \in Users : pc[u] # "idle" => new[u] # g

Call(u, call, by, g) ==
    /\ pc[u] = "idle"
    /\ calls < MaxCalls /\ calls' = calls + 1
    /\ IF call \in {"Info", "Critical"}
       THEN sent[u] < MaxMessages /\ sent' = [sent EXCEPT ![u] = @ + 1]
       ELSE UNCHANGED sent
    /\ call \in {"UseLogger", "ReplaceLogger"} => by = "package" /\ Installable(g)
    /\ call \in {"Info", "Critical", "Flush"} /\ by = "package" => g = Current
    /\ via' = [via EXCEPT ![u] = by]
    /\ new' = [new EXCEPT ![u] = g]
    /\ todo' = [todo EXCEPT ![u] = IF by = "package" THEN <<call>> ELSE Parts(call, g)]
    /\ lg' = [lg EXCEPT ![u] = g]
    /\ Goto(u, IF by = "package" THEN "pkg" ELSE "m")
    /\ UNCHANGED <<packageVars, lockVars, queueVars, writerVars, consumerVars, before>>

\* Wrong on purpose, to see PackageOpen fail: only ReplaceLogger takes the mutex.
LockPkgToReplace(u) ==
    /\ pc[u] = "pkg"
    /\ pkgMutex = Nil \/ part(u) # "ReplaceLogger"
    /\ pkgMutex' = IF part(u) = "ReplaceLogger" THEN u ELSE pkgMutex
    /\ lg' = [lg EXCEPT ![u] = Current]
    /\ LET parts == Parts(part(u), Current)
       IN  /\ todo' = [todo EXCEPT ![u] = parts]
           /\ Goto(u, IF Head(parts) = "install" THEN "install" ELSE "m")
    /\ UNCHANGED <<Current, lockVars, queueVars, writerVars, consumerVars, via, new, before,
                   sent, calls>>

\* pkgOperationsMutex.Lock, and Current read under it.
LockPkg(u) ==
    /\ pc[u] = "pkg"
    /\ pkgMutex = Nil
    /\ pkgMutex' = u
    /\ lg' = [lg EXCEPT ![u] = Current]
    /\ LET parts == Parts(part(u), Current)
       IN  /\ todo' = [todo EXCEPT ![u] = parts]
           /\ Goto(u, IF Head(parts) = "install" THEN "install" ELSE "m")
    /\ UNCHANGED <<Current, lockVars, queueVars, writerVars, consumerVars, via, new, before,
                   sent, calls>>

Accepted(g) == Range(written[g]) \cup Range(msgQueue[g])

\* The part's mutex; nothing happens on a closed logger.
LockM(u) ==
    /\ pc[u] = "m"
    /\ m[Mutex(u)] = Nil
    /\ m' = [m EXCEPT ![Mutex(u)] = u]
    /\ before' = [before EXCEPT ![u] = Accepted(lg[u])]
    /\ Goto(u, CASE closed[lg[u]] -> "unlock"
                 [] ~closed[lg[u]] /\ Kind[lg[u]] # "sync" -> "L"
                 [] OTHER -> IF part(u) = "log" THEN "dispatch"
                             ELSE IF part(u) = "close" THEN "rootClose" ELSE "rootFlush")
    /\ UNCHANGED <<packageVars, L, queueVars, writerVars, consumerVars, todo, lg, via, new,
                   sent, calls>>

\* Wrong on purpose, to see TypeOK (QueueBounded) fail: > for >=.
OverflowsAbove(u) == part(u) # "log" \/ Len(msgQueue[lg[u]]) > MaxQueueSize

\* A flush empties the queue; so does a message that finds it full.
Overflows(u) == part(u) # "log" \/ Len(msgQueue[lg[u]]) >= MaxQueueSize

\* Wrong on purpose, to see EachOnceInOrder fail: the queue is emptied without its
\* lock.
LockLNot(u) ==
    /\ pc[u] = "L"
    /\ L' = [L EXCEPT ![lg[u]] = u]
    /\ Goto(u, IF Overflows(u) THEN "drain" ELSE "push")
    /\ UNCHANGED <<packageVars, m, queueVars, writerVars, consumerVars, todo, lg, via, new,
                   before, sent, calls>>

LockL(u) ==
    /\ pc[u] = "L"
    /\ L[lg[u]] = Nil
    /\ L' = [L EXCEPT ![lg[u]] = u]
    /\ Goto(u, IF Overflows(u) THEN "drain" ELSE "push")
    /\ UNCHANGED <<packageVars, m, queueVars, writerVars, consumerVars, todo, lg, via, new,
                   before, sent, calls>>

\* processLogMsg: to the writers, closed or not; a panic of theirs is recovered.
Dispatch(g, msg) ==
    /\ written' = [written EXCEPT ![g] = Append(@, msg)]
    /\ late' = IF writersClosed[g] THEN late \cup {msg} ELSE late
    /\ UNCHANGED <<flushed, writersClosed>>

\* Wrong on purpose, to see FlushDelivers fail: only the first message goes out.
DrainOne(u) ==
    /\ pc[u] = "drain"
    /\ IF msgQueue[lg[u]] = <<>> \/ before[u] \cap Range(written[lg[u]]) # {}
       THEN /\ Goto(u, IF part(u) = "log" THEN "push" ELSE "rootFlush")
            /\ L' = [L EXCEPT ![lg[u]] = IF part(u) = "log" THEN u ELSE Nil]
            /\ UNCHANGED writerVars
       ELSE /\ Dispatch(lg[u], Head(msgQueue[lg[u]]))
            /\ Goto(u, "remove")
            /\ UNCHANGED L
    /\ UNCHANGED <<packageVars, m, queueVars, consumerVars, todo, lg, via, new, before, sent,
                   calls>>

\* flushQueue, one message at a time.
Drain(u) ==
    /\ pc[u] = "drain"
    /\ IF msgQueue[lg[u]] = <<>>
       THEN /\ Goto(u, IF part(u) = "log" THEN "push" ELSE "rootFlush")
            /\ L' = [L EXCEPT ![lg[u]] = IF part(u) = "log" THEN u ELSE Nil]
            /\ UNCHANGED writerVars
       ELSE /\ Dispatch(lg[u], Head(msgQueue[lg[u]]))
            /\ Goto(u, "remove")
            /\ UNCHANGED L
    /\ UNCHANGED <<packageVars, m, queueVars, consumerVars, todo, lg, via, new, before, sent,
                   calls>>

Remove(u) ==
    /\ pc[u] = "remove"
    /\ msgQueue' = [msgQueue EXCEPT ![lg[u]] = Tail(@)]
    /\ Goto(u, "drain")
    /\ UNCHANGED <<packageVars, lockVars, closed, writerVars, consumerVars, todo, lg, via, new,
                   before, sent, calls>>

\* queueHasElements.Broadcast
Broadcast(g) == cpc' = [cpc EXCEPT ![g] = IF @ = "waiting" THEN "ready" ELSE @]

\* Wrong on purpose, to see EveryMessageWritten fail: nobody is told.
PushSilently(u) ==
    /\ pc[u] = "push"
    /\ msgQueue' = [msgQueue EXCEPT ![lg[u]] = Append(@, Msg(u))]
    /\ L' = [L EXCEPT ![lg[u]] = Nil]
    /\ Goto(u, "unlock")
    /\ UNCHANGED <<packageVars, m, closed, writerVars, consumerVars, todo, lg, via, new,
                   before, sent, calls>>

Push(u) ==
    /\ pc[u] = "push"
    /\ msgQueue' = [msgQueue EXCEPT ![lg[u]] = Append(@, Msg(u))]
    /\ Broadcast(lg[u])
    /\ L' = [L EXCEPT ![lg[u]] = Nil]
    /\ Goto(u, "unlock")
    /\ UNCHANGED <<packageVars, m, closed, writerVars, interval, todo, lg, via, new, before,
                   sent, calls>>

\* A synchronous logger's innerLog.
DispatchNow(u) ==
    /\ pc[u] = "dispatch"
    /\ Dispatch(lg[u], Msg(u))
    /\ Goto(u, "unlock")
    /\ UNCHANGED <<packageVars, lockVars, queueVars, consumerVars, todo, lg, via, new, before,
                   sent, calls>>

\* RootDispatcher.Flush, outside the lock of the queue.
RootFlush(u) ==
    /\ pc[u] = "rootFlush"
    /\ flushed' = [flushed EXCEPT ![lg[u]] = Len(written[lg[u]])]
    /\ Goto(u, IF part(u) = "close" THEN "rootClose" ELSE "unlock")
    /\ UNCHANGED <<packageVars, lockVars, queueVars, written, writersClosed, late,
                   consumerVars, todo, lg, via, new, before, sent, calls>>

\* Close does not set closed.
RootClose(u) ==
    /\ pc[u] = "rootClose"
    /\ writersClosed' = [writersClosed EXCEPT ![lg[u]] = TRUE]
    /\ Broadcast(lg[u])
    /\ Goto(u, "unlock")
    /\ UNCHANGED <<packageVars, lockVars, queueVars, written, flushed, late, interval, todo,
                   lg, via, new, before, sent, calls>>

Proceed(u) ==
    /\ todo' = [todo EXCEPT ![u] = Tail(@)]
    /\ Goto(u, IF Len(todo[u]) = 1 THEN "leave"
               ELSE IF todo[u][2] = "install" THEN "install" ELSE "m")

\* Wrong on purpose, to see EveryCallReturns fail: Critical flushes with log's mutex
\* still held.
UnlockLast(u) ==
    /\ pc[u] = "unlock"
    /\ m' = [x \in DOMAIN m |-> IF m[x] = u /\ Len(todo[u]) = 1 THEN Nil ELSE m[x]]
    /\ before' = [before EXCEPT ![u] = {}]
    /\ Proceed(u)
    /\ UNCHANGED <<packageVars, L, queueVars, writerVars, consumerVars, lg, via, new, sent,
                   calls>>

Unlock(u) ==
    /\ pc[u] = "unlock"
    /\ m' = [m EXCEPT ![Mutex(u)] = Nil]
    /\ before' = [before EXCEPT ![u] = {}]
    /\ Proceed(u)
    /\ UNCHANGED <<packageVars, L, queueVars, writerVars, consumerVars, lg, via, new, sent,
                   calls>>

Install(u) ==
    /\ pc[u] = "install"
    /\ Current' = new[u]
    /\ Proceed(u)
    /\ UNCHANGED <<pkgMutex, lockVars, queueVars, writerVars, consumerVars, lg, via, new,
                   before, sent, calls>>

Leave(u) ==
    /\ pc[u] = "leave"
    /\ pkgMutex' = IF via[u] = "package" THEN Nil ELSE pkgMutex
    /\ Goto(u, "idle")
    /\ lg' = [lg EXCEPT ![u] = Default]
    /\ via' = [via EXCEPT ![u] = "package"]
    /\ new' = [new EXCEPT ![u] = Default]
    /\ UNCHANGED <<Current, lockVars, queueVars, writerVars, consumerVars, todo, before, sent,
                   calls>>
-----------------------------------------------------------------------------
\* processItem: waits on the condition, or keeps the lock for one message.
Wait(g) ==
    /\ cpc[g] = "ready"
    /\ L[g] = Nil
    /\ IF closed[g]
       THEN cpc' = [cpc EXCEPT ![g] = "ended"] /\ UNCHANGED L
       ELSE IF msgQueue[g] = <<>>
       THEN cpc' = [cpc EXCEPT ![g] = "waiting"] /\ UNCHANGED L
       ELSE cpc' = [cpc EXCEPT ![g] = "process"] /\ L' = [L EXCEPT ![g] = g]
    /\ UNCHANGED <<packageVars, m, queueVars, writerVars, interval, callVars>>

Process(g) ==
    /\ cpc[g] = "process"
    /\ Dispatch(g, Head(msgQueue[g]))
    /\ cpc' = [cpc EXCEPT ![g] = "remove"]
    /\ UNCHANGED <<packageVars, lockVars, queueVars, interval, callVars>>

\* calcAdaptiveInterval of what processItem returns: the length less one, though the
\* message is out of the queue by then.
AdaptiveInterval(length) ==
    LET c == IF length - 1 < CriticalMsgCount THEN length - 1 ELSE CriticalMsgCount
    IN  MinInterval + ((CriticalMsgCount - c) * (MaxInterval - MinInterval)) \div CriticalMsgCount

Processed(g) ==
    /\ cpc[g] = "remove"
    /\ msgQueue' = [msgQueue EXCEPT ![g] = Tail(@)]
    /\ L' = [L EXCEPT ![g] = Nil]
    /\ cpc' = [cpc EXCEPT ![g] = IF Kind[g] = "loop" THEN "ready" ELSE "pause"]
    /\ interval' = [interval EXCEPT ![g] = IF Kind[g] = "adaptive"
                                           THEN AdaptiveInterval(Len(msgQueue[g]) - 1) ELSE @]
    /\ UNCHANGED <<packageVars, m, closed, writerVars, callVars>>

\* <-time.After(interval)
Pause(g) ==
    /\ cpc[g] = "pause"
    /\ cpc' = [cpc EXCEPT ![g] = "ready"]
    /\ UNCHANGED <<packageVars, lockVars, queueVars, writerVars, interval, callVars>>

Step(u) ==
    \/ LockPkg(u) \/ LockM(u) \/ LockL(u) \/ Drain(u) \/ Remove(u) \/ Push(u)
    \/ DispatchNow(u) \/ RootFlush(u) \/ RootClose(u) \/ Unlock(u) \/ Install(u) \/ Leave(u)

Consume(g) == Wait(g) \/ Process(g) \/ Processed(g) \/ Pause(g)

Next ==
    \/ \E u \in Users : \/ Step(u)
                        \/ \E g \in Loggers, by \in {"package", "logger"},
                              call \in {"Info", "Critical", "Flush", "UseLogger",
                                        "ReplaceLogger"} :
                             Call(u, call, by, g)
    \/ \E g \in Loggers : Consume(g)

Spec == Init /\ [][Next]_vars

\* Goroutines run on, writers come back, and a pause ends.
FairSpec ==
    /\ Spec
    /\ \A u \in Users : WF_vars(Step(u))
    /\ \A g \in Loggers : WF_vars(Consume(g))
-----------------------------------------------------------------------------
\* However fast messages come, a queue holds no more than its limit.
QueueBounded == \A g \in Loggers : Len(msgQueue[g]) <= MaxQueueSize

TypeOK ==
    /\ Current \in Loggers
    /\ pkgMutex \in Users \cup {Nil}
    /\ m \in [Loggers \X {"outer", "inner"} -> Users \cup {Nil}]
    /\ L \in [Loggers -> Users \cup Loggers \cup {Nil}]
    /\ \A g \in Loggers : Accepted(g) \subseteq Message
    /\ \A g \in Loggers : flushed[g] \in 0..Len(written[g])
    /\ late \subseteq Message
    /\ cpc \in [Loggers -> {"none", "ready", "waiting", "process", "remove", "pause", "ended"}]
    /\ \A u \in Users : before[u] \subseteq Message
    /\ QueueBounded

\* Consumer, flushes and overflowing messages all take from one queue: no message is
\* written twice, and those of one goroutine come out in the order it logged them.
EachOnceInOrder ==
    \A g \in Loggers : \A i, j \in DOMAIN written[g] :
      i < j /\ written[g][i].user = written[g][j].user => written[g][i].n < written[g][j].n

\* Flush comes back when everything logged before it is out of queue and buffers, and
\* so does Critical, with its own message: the proxy's last words are not lost.
FlushDelivers ==
    \A u \in Users :
      pc[u] = "unlock" /\ part(u) \in {"flush", "criticalFlush"} =>
        before[u] \subseteq Range(SubSeq(written[lg[u]], 1, flushed[lg[u]]))

\* A message logged by a package function never reaches writers that ReplaceLogger
\* has closed, whoever logs while it runs.
PackageOpen == \A msg \in late : msg.via = "logger"

\* Whatever is in a queue is written without anybody calling Flush: once nobody logs,
\* the queue is emptied.
EveryMessageWritten == \A g \in Loggers : []<>(msgQueue[g] = <<>>)

\* No call is stuck: three mutexes and a condition, taken by users and consumers in
\* one order.
EveryCallReturns == \A u \in Users : pc[u] # "idle" ~> pc[u] = "idle"

\* logger.go:125 says that closed is "'true' when all writers are closed, all data is
\* flushed, logger is unusable."  Close never sets it.
ClosedWhenWritersClosed == \A g \in Loggers : writersClosed[g] => closed[g]
=============================================================================
