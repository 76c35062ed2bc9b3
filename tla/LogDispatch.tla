---------------------------- MODULE LogDispatch ----------------------------
(***************************************************************************)
(* What a seelog logger does with one message, flush or close at a time:   *)
(* the level constraints and their exceptions, and the tree of dispatchers *)
(* down to the writers.  A call walks the tree; what it has still to visit *)
(* is work.  A custom receiver is a dispatcher without receivers of its    *)
(* own and appears among the writers, as it takes the messages.            *)
(***************************************************************************)
EXTENDS Integers, Sequences, FiniteSets, Functions

CONSTANTS
    Dispatchers, Root,   \* the inner nodes of the tree
    Writers,             \* its leaves
    Custom,              \* those that are custom receivers
    Buffered,            \* those that are buffered writers
    Receivers,           \* of each dispatcher, in the order of the configuration
    AllowList,           \* of each dispatcher: all levels unless it is a filter
    Constraints,         \* the levels of the general rule
    Exceptions,          \* in order: the contexts each matches, and its constraints
    Contexts,            \* callers that may log; NoContext is one that is unknown
    NoContext,
    MaxCalls             \* bound: calls of the logger

Levels == 0..5   \* TraceLvl to CriticalLvl

Nodes == Dispatchers \cup Writers

\* A node and all below it: what is in every set that holds it, and the receivers of its members.
ReceiversIn(S) == \A d \in S \cap Dispatchers : Range(Receivers[d]) \subseteq S
Under(x) == {y \in Nodes : \A S \in SUBSET Nodes : x \in S /\ ReceiversIn(S) => y \in S}

\* Each node but the root is one receiver of one dispatcher.
IsTree ==
    /\ \A d, e \in Dispatchers : \A i \in DOMAIN Receivers[d], j \in DOMAIN Receivers[e] :
         Receivers[d][i] = Receivers[e][j] => d = e /\ i = j
    /\ \A d \in Dispatchers : Root \notin Range(Receivers[d])
    /\ Under(Root) = Nodes

DispatchAssumption ==
    /\ Root \in Dispatchers
    /\ Dispatchers \cap Writers = {}
    /\ Custom \subseteq Writers /\ Buffered \subseteq Writers \ Custom
    /\ Receivers \in [Dispatchers -> Seq(Nodes)]
    /\ \A d \in Dispatchers : Receivers[d] # <<>> /\ AllowList[d] \subseteq Levels
    /\ IsTree
    /\ Exceptions \in Seq([contexts : SUBSET Contexts, levels : SUBSET Levels])
    /\ NoContext \notin Contexts
    /\ MaxCalls \in Nat

VARIABLES
    call,      \* "none", "dispatch", "flush" or "close"
    level, context,   \* of the message at hand
    work,      \* what the call has still to do, in order
    got,       \* how often each writer took the message at hand
    failed,    \* writers that failed in the call at hand
    panicked,  \* did a panic end it?
    dropped,   \* was the message stopped by the table of unused levels?
    held,      \* buffered writers with something in their buffer
    broken,    \* those a flush of which has failed: bufio keeps the error for ever
    closed,    \* writers that are closed
    calls

vars == <<call, level, context, work, got, failed, panicked, dropped, held, broken, closed, calls>>

Init ==
    /\ call = "none"
    /\ level = 0
    /\ context = NoContext
    /\ work = <<>>
    /\ got = [w \in Writers |-> 0]
    /\ failed = {}
    /\ panicked = FALSE
    /\ dropped = FALSE
    /\ held = {}
    /\ broken = {}
    /\ closed = {}
    /\ calls = 0
-----------------------------------------------------------------------------
\* The first exception that matches a known caller decides.
IsAllowed(l, c) ==
    LET matching == {i \in DOMAIN Exceptions : c \in Exceptions[i].contexts}
    IN  IF c = NoContext \/ matching = {} THEN l \in Constraints
        ELSE l \in Exceptions[CHOOSE i \in matching : \A j \in matching : i <= j].levels

\* Wrong on purpose, to see NothingAllowedDropped fail: only the general rule counts.
unusedLevelsOfRule == Levels \ Constraints

\* fillUnusedLevels: what neither the rule nor any exception allows.
unusedLevels == Levels \ (Constraints \cup UNION {e.levels : e \in Range(Exceptions)})

\* createDispatcher keeps writers and dispatchers apart.
Those(d, K) ==
    LET at == {i \in DOMAIN Receivers[d] : Receivers[d][i] \in K}
        Nth(n) == CHOOSE i \in at : Cardinality({j \in at : j < i}) = n - 1
    IN  [n \in 1..Cardinality(at) |-> Receivers[d][Nth(n)]]

WritersOf(d) == Those(d, Writers \ Custom)
DispatchersOf(d) == Those(d, Dispatchers \cup Custom)

Items(do, nodes) == [i \in DOMAIN nodes |-> [do |-> do, on |-> nodes[i]]]

\* Wrong on purpose, to see ClosedEmpty fail: a writer is closed and then flushed.
ExpandCloseFirst(do, d) ==
    CASE do = "dispatch" ->
           IF level \in AllowList[d]
           THEN Items(do, WritersOf(d)) \o Items(do, DispatchersOf(d)) ELSE <<>>
      [] do = "flush" -> Items(do, DispatchersOf(d)) \o Items(do, WritersOf(d))
      [] do = "close" -> LET nodes == DispatchersOf(d) \o WritersOf(d)
                         IN  [i \in 1..(2 * Len(nodes)) |->
                                [do |-> IF i % 2 = 0 THEN "flush" ELSE "close",
                                 on |-> nodes[(i + 1) \div 2]]]

\* What each method of a dispatcher calls in turn.
Expand(do, d) ==
    CASE do = "dispatch" ->
           IF level \in AllowList[d]
           THEN Items(do, WritersOf(d)) \o Items(do, DispatchersOf(d)) ELSE <<>>
      [] do = "flush" -> Items(do, DispatchersOf(d)) \o Items(do, WritersOf(d))
      [] do = "close" -> LET nodes == DispatchersOf(d) \o WritersOf(d)
                         IN  [i \in 1..(2 * Len(nodes)) |->
                                [do |-> IF i % 2 = 1 THEN "flush" ELSE "close",
                                 on |-> nodes[(i + 1) \div 2]]]

Start(do) ==
    /\ call = "none" /\ calls < MaxCalls
    /\ calls' = calls + 1
    /\ got' = [w \in Writers |-> 0]
    /\ failed' = {}
    /\ panicked' = FALSE

\* commonLogger.log and processLogMsg: the table first, then the rules.
Log(l, c) ==
    /\ Start("dispatch")
    /\ level' = l /\ context' = c
    /\ dropped' = (l \in unusedLevels)
    /\ IF l \notin unusedLevels /\ IsAllowed(l, c)
       THEN call' = "dispatch" /\ work' = <<[do |-> "dispatch", on |-> Root]>>
       ELSE UNCHANGED <<call, work>>
    /\ UNCHANGED <<held, broken, closed>>

\* Flush and Close of the root.
Clear(do) ==
    /\ Start(do)
    /\ call' = do
    /\ work' = <<[do |-> do, on |-> Root]>>
    /\ dropped' = FALSE
    /\ UNCHANGED <<level, context, held, broken, closed>>

doing == Head(work)

Visit ==
    /\ work # <<>>
    /\ doing.on \in Dispatchers
    /\ work' = Expand(doing.do, doing.on) \o Tail(work)
    /\ UNCHANGED <<call, level, context, got, failed, panicked, dropped, held, broken, closed, calls>>

Writing == work # <<>> /\ doing.on \in Writers /\ doing.do = "dispatch"

\* A buffered writer keeps the message, unless it is too big for the buffer and goes past
\* it once that is flushed; a broken one drops it without a word.
Write ==
    /\ Writing
    /\ got' = [got EXCEPT ![doing.on] = @ + 1]
    /\ held' \in IF doing.on \in Buffered \ broken
                 THEN {held \cup {doing.on}, held \ {doing.on}} ELSE {held}
    /\ work' = Tail(work)
    /\ UNCHANGED <<call, level, context, failed, panicked, dropped, broken, closed, calls>>

\* bufio has something to write and cannot: it keeps what it has and is broken.
CannotFlush ==
    /\ doing.on \in held
    /\ broken' = broken \cup {doing.on}
    /\ UNCHANGED held

\* An error is reported and the next writer written to, be it of the writer itself, which
\* has flushed its buffer before, or of that flush; a panic of a custom receiver is
\* recovered on the spot.
WriteFails ==
    /\ Writing
    /\ failed' = failed \cup {doing.on}
    /\ \/ doing.on \in broken \cup (Writers \ Buffered) /\ UNCHANGED <<held, broken>>
       \/ doing.on \in Buffered \ broken /\ held' = held \ {doing.on} /\ UNCHANGED broken
       \/ CannotFlush
    /\ work' = Tail(work)
    /\ UNCHANGED <<call, level, context, got, panicked, dropped, closed, calls>>

\* Any other panic is recovered by processLogMsg only.
WritePanics ==
    /\ Writing
    /\ doing.on \notin Custom
    /\ failed' = failed \cup {doing.on}
    /\ panicked' = TRUE
    /\ held' \in {held, held \ ({doing.on} \ broken)}
    /\ work' = <<>>
    /\ UNCHANGED <<call, level, context, got, dropped, broken, closed, calls>>

Flush == work # <<>> /\ doing.on \in Writers /\ doing.do = "flush"

\* Nothing to do for a writer without a buffer.
FlushWriter ==
    /\ Flush
    /\ doing.on \notin broken
    /\ held' = held \ {doing.on}
    /\ work' = Tail(work)
    /\ UNCHANGED <<call, level, context, got, failed, panicked, dropped, broken, closed, calls>>

\* bufferedWriter.Flush drops the error.
FlushFails ==
    /\ Flush
    /\ CannotFlush
    /\ failed' = failed \cup {doing.on}
    /\ work' = Tail(work)
    /\ UNCHANGED <<call, level, context, got, panicked, dropped, closed, calls>>

\* A custom receiver's Flush, or the writer behind a buffer; nobody recovers.
FlushPanics ==
    /\ Flush
    /\ doing.on \in Custom \cup (held \ broken)
    /\ failed' = failed \cup {doing.on}
    /\ panicked' = TRUE
    /\ work' = <<>>
    /\ UNCHANGED <<call, level, context, got, dropped, held, broken, closed, calls>>

Closing == work # <<>> /\ doing.on \in Writers /\ doing.do = "close"

CloseWriter ==
    /\ Closing
    /\ closed' = closed \cup {doing.on}
    /\ work' = Tail(work)
    /\ UNCHANGED <<call, level, context, got, failed, panicked, dropped, held, broken, calls>>

\* An error ends the whole walk, and so does a panic of a custom receiver, which is flushed
\* once more on the way.
CloseFails ==
    /\ Closing
    /\ failed' = failed \cup {doing.on}
    /\ panicked' \in {FALSE, doing.on \in Custom}
    /\ work' = <<>>
    /\ UNCHANGED <<call, level, context, got, dropped, held, broken, closed, calls>>

Done == call # "none" /\ work = <<>>

Return ==
    /\ Done
    /\ call' = "none"
    /\ UNCHANGED <<level, context, work, got, failed, panicked, dropped, held, broken, closed, calls>>

Next ==
    \/ \E l \in Levels, c \in Contexts \cup {NoContext} : Log(l, c)
    \/ \E do \in {"flush", "close"} : Clear(do)
    \/ Visit \/ Write \/ WriteFails \/ WritePanics
    \/ FlushWriter \/ FlushFails \/ FlushPanics \/ CloseWriter \/ CloseFails \/ Return

Spec == Init /\ [][Next]_vars
-----------------------------------------------------------------------------
TypeOK ==
    /\ call \in {"none", "dispatch", "flush", "close"}
    /\ level \in Levels /\ context \in Contexts \cup {NoContext}
    /\ work \in Seq([do : {"dispatch", "flush", "close"}, on : Dispatchers \cup Writers])
    /\ got \in [Writers -> 0..1]
    /\ failed \subseteq Writers /\ closed \subseteq Writers
    /\ held \subseteq Buffered /\ broken \subseteq Buffered

Reaches(w) == \A d \in Dispatchers : w \in Under(d) => level \in AllowList[d]

\* A message gets to the writers that no filter above keeps it from, and to no other,
\* each once, in whatever order dispatchers and writers are configured; an error at one
\* writer costs only that writer's copy.
DispatchedToAllowed ==
    call = "dispatch" /\ Done /\ ~panicked =>
      {w \in Writers : Reaches(w)} = failed \cup {w \in Writers : got[w] = 1}

\* Flush gets to every buffer, however deep in the tree and whichever writers fail before
\* it: what is not empty then has failed to flush.  (Only a panic ends the walk.)
FlushEmpties == call = "flush" /\ Done /\ ~panicked => held \subseteq failed

\* A writer is flushed before it is closed, in the same walk: what it held is not lost with
\* it, but for a buffer that just then could not be written.  (A writer that fails to close
\* leaves the writers after it as they are.)
ClosedEmpty == [][(closed' \ closed) \cap held \subseteq failed]_vars

\* What a walk of the tree leaves in the buffers.
WalkEmpties == []FlushEmpties /\ ClosedEmpty

\* The table of unused levels only saves time: no message it stops would have been
\* allowed by an exception.
NothingAllowedDropped == dropped => ~IsAllowed(level, context)

\* A message gets to the writers its level and context are allowed at, and to no others.
ReachesAllowed == DispatchedToAllowed /\ NothingAllowedDropped
=============================================================================
