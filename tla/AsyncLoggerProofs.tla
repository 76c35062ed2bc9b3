------------------------- MODULE AsyncLoggerProofs -------------------------
(***************************************************************************)
(* The loggers for any number of goroutines, loggers of every kind and     *)
(* queues of every size.  What a logger has accepted is one sequence: what *)
(* is written, then what is still queued; taking a message off the queue   *)
(* moves the border and nothing else.                                      *)
(***************************************************************************)
EXTENDS AsyncLogger, SequenceTheorems, TLAPS

Via == {"package", "logger"}
Locations == {"idle", "pkg", "m", "L", "drain", "remove", "push", "dispatch", "rootFlush",
              "rootClose", "unlock", "install", "leave"}

\* What a call still has to do, by its first part.
Called == {<<"Info">>, <<"Critical">>, <<"Flush">>, <<"UseLogger">>, <<"ReplaceLogger">>}
Logs == {<<"log">>, <<"log", "criticalFlush">>}
Flushes == {<<"flush">>, <<"criticalFlush">>}
Replaces == {<<"flush", "install">>, <<"flush", "close", "install">>, <<"close", "install">>}
Installs == {<<"install">>, <<"install", "flush">>}

Types ==
    /\ Current \in Loggers
    /\ pkgMutex \in Users \cup {Nil}
    /\ m \in [Loggers \X {"outer", "inner"} -> Users \cup {Nil}]
    /\ L \in [Loggers -> Users \cup Loggers \cup {Nil}]
    /\ msgQueue \in [Loggers -> Seq(Message)]
    /\ closed = [g \in Loggers |-> FALSE]
    /\ written \in [Loggers -> Seq(Message)]
    /\ flushed \in [Loggers -> Nat]
    /\ writersClosed \in [Loggers -> BOOLEAN]
    /\ late \subseteq Message
    /\ cpc \in [Loggers -> {"none", "ready", "waiting", "process", "remove", "pause", "ended"}]

CallTypes ==
    /\ pc \in [Users -> Locations]
    /\ todo \in [Users -> {<<>>} \cup Called \cup Logs \cup Flushes \cup Replaces \cup Installs]
    /\ lg \in [Users -> Loggers]
    /\ via \in [Users -> Via]
    /\ new \in [Users -> Loggers]
    /\ before \in [Users -> SUBSET Message]
    /\ sent \in [Users -> 0..MaxMessages]

\* Where a goroutine is in a call, and what is left of the call there.
Place(u) ==
    /\ pc[u] = "idle" => via[u] = "package"
    /\ pc[u] = "pkg" => todo[u] \in Called /\ via[u] = "package"
    /\ pc[u] = "m" => todo[u] \in Logs \cup Flushes \cup Replaces
    /\ pc[u] \in {"L", "drain", "remove"} =>
         todo[u] \in Logs \cup Flushes \cup Replaces /\ Kind[lg[u]] # "sync"
    /\ pc[u] = "push" => todo[u] \in Logs /\ Kind[lg[u]] # "sync"
    /\ pc[u] = "dispatch" => todo[u] \in Logs /\ Kind[lg[u]] = "sync"
    /\ pc[u] = "rootFlush" => todo[u] \in Flushes \cup Replaces
    /\ pc[u] = "rootClose" => todo[u] = <<"close", "install">>
    /\ pc[u] = "unlock" => todo[u] \in Logs \cup Flushes \cup Replaces
    /\ pc[u] = "install" => todo[u] \in Installs
    /\ pc[u] = "leave" => todo[u] = <<>>
    /\ via[u] = "logger" => todo[u] \in Logs \cup Flushes \cup {<<>>}

Shapes == Types /\ CallTypes /\ \A u \in Users : Place(u)

\* The lock of a queue is its holder's.
Locked ==
    /\ \A u \in Users : pc[u] \in {"drain", "remove", "push"} => L[lg[u]] = u
    /\ \A g \in Loggers : cpc[g] \in {"process", "remove"} => L[g] = g

\* Is the first message of the queue written already?
Taken(g) == cpc[g] = "remove" \/ \E u \in Users : pc[u] = "remove" /\ lg[u] = g

Queued ==
    /\ QueueBounded
    /\ \A g \in Loggers : Kind[g] = "sync" => msgQueue[g] = <<>>
    /\ \A g \in Loggers : cpc[g] = "process" => msgQueue[g] # <<>>
    /\ \A u \in Users : pc[u] = "push" => Len(msgQueue[lg[u]]) < MaxQueueSize
    /\ \A g \in Loggers : Taken(g) => msgQueue[g] # <<>> /\ Head(msgQueue[g]) \in Range(written[g])

\* All a logger has accepted, in the order in which it did.
Log(g) == written[g] \o (IF Taken(g) THEN Tail(msgQueue[g]) ELSE msgQueue[g])

InOrder(s) == \A i, j \in DOMAIN s : i < j /\ s[i].user = s[j].user => s[i].n < s[j].n

\* A goroutine that has not yet handed over the message of its call.
Unsent(u) ==
    \/ pc[u] = "pkg" /\ todo[u] \in {<<"Info">>, <<"Critical">>}
    \/ pc[u] \in {"m", "L", "drain", "remove", "push", "dispatch"} /\ todo[u] \in Logs

HandedOver(u) == IF Unsent(u) THEN sent[u] - 1 ELSE sent[u]

Ordered ==
    /\ \A u \in Users : Unsent(u) => sent[u] \in 1..MaxMessages
    /\ \A g \in Loggers : InOrder(Log(g))
    /\ \A g \in Loggers : \A i \in DOMAIN Log(g) : Log(g)[i].n <= HandedOver(Log(g)[i].user)

\* What was accepted before a flush stays accepted, then is written, then is out.
Out(g) == Range(SubSeq(written[g], 1, flushed[g]))

Flushing ==
    /\ \A g \in Loggers : flushed[g] <= Len(written[g])
    /\ \A u \in Users :
         /\ pc[u] \in {"L", "drain", "remove"} => before[u] \subseteq Accepted(lg[u])
         /\ pc[u] = "rootFlush" => before[u] \subseteq Range(written[lg[u]])
    /\ FlushDelivers

\* Package functions follow each other; what is installed is open, but for the moment
\* ReplaceLogger needs from closing a logger to installing the next.
Holds(u) == via[u] = "package" /\ pc[u] \notin {"idle", "pkg"}

Installing(u) ==
    \/ pc[u] = "pkg" /\ todo[u] \in {<<"UseLogger">>, <<"ReplaceLogger">>}
    \/ pc[u] \notin {"idle", "pkg"} /\ todo[u] \in Installs \cup Replaces

Closing(u) == pc[u] = "install" \/ (pc[u] = "unlock" /\ todo[u] = <<"close", "install">>)

FromLogger(g) == \A i \in DOMAIN msgQueue[g] : msgQueue[g][i].via = "logger"

Package ==
    /\ \A u \in Users : Holds(u) => pkgMutex = u
    /\ \A u \in Users : Holds(u) /\ todo[u] \in Logs \cup Installs \cup Replaces =>
                          lg[u] = Current
    /\ writersClosed[Current] => \E u \in Users : Holds(u) /\ Closing(u)
    /\ \A u \in Users : Installing(u) => new[u] # Current /\ ~writersClosed[new[u]]
    /\ \A u, v \in Users : u # v /\ Installing(u) /\ Installing(v) => new[u] # new[v]

Packaged ==
    /\ Package
    /\ \A g \in Loggers : writersClosed[g] => FromLogger(g)
    /\ \A u \in Users : pc[u] \in {"rootFlush", "rootClose"}
                        /\ todo[u] = <<"close", "install">> => FromLogger(lg[u])
    /\ PackageOpen

Inv == Shapes /\ Locked /\ Queued /\ Ordered /\ Flushing /\ Packaged
-----------------------------------------------------------------------------
\* What comes after a part of a call.
After(t) == IF Len(t) = 1 THEN "leave" ELSE IF t[2] = "install" THEN "install" ELSE "m"

\* The lists of parts, told apart by how they begin.
LEMMA PartLists ==
    /\ \A t \in Called : Head(t) \in {"Info", "Critical", "Flush", "UseLogger", "ReplaceLogger"}
                         /\ t = <<Head(t)>>
    /\ \A t \in Logs : Head(t) = "log"
    /\ \A t \in Flushes : Head(t) \in {"flush", "criticalFlush"}
    /\ \A t \in Replaces : Head(t) \in {"flush", "close"}
                           /\ (Head(t) = "close" <=> t = <<"close", "install">>)
    /\ \A t \in Installs : Head(t) = "install"
BY DEF Called, Logs, Flushes, Replaces, Installs

\* They have nothing in common.
LEMMA PartListsDiffer ==
    /\ {<<>>} \cap (Called \cup Logs \cup Flushes \cup Replaces \cup Installs) = {}
    /\ Called \cap (Logs \cup Flushes \cup Replaces \cup Installs) = {}
    /\ Logs \cap (Flushes \cup Replaces \cup Installs) = {}
    /\ Flushes \cap (Replaces \cup Installs) = {}
    /\ Replaces \cap Installs = {}
BY DEF Called, Logs, Flushes, Replaces, Installs

\* A call goes on with the rest of its list.
LEMMA PartsLeft ==
    ASSUME NEW t \in Logs \cup Flushes \cup Replaces \cup Installs
    PROVE  /\ Tail(t) \in {<<>>} \cup Flushes \cup Replaces \cup Installs
           /\ After(t) \in {"leave", "install", "m"}
           /\ After(t) = "leave" => Tail(t) = <<>>
           /\ After(t) = "install" => Tail(t) = <<"install">> /\ t \in Replaces
           /\ After(t) = "m" => Tail(t) \in Flushes \cup Replaces
           /\ Tail(t) \in Installs \cup Replaces => t \in Replaces
           /\ t = <<"close", "install">> => After(t) = "install"
<1>1. /\ Tail(<<"log">>) = <<>> /\ After(<<"log">>) = "leave"
      /\ Tail(<<"flush">>) = <<>> /\ After(<<"flush">>) = "leave"
      /\ Tail(<<"criticalFlush">>) = <<>> /\ After(<<"criticalFlush">>) = "leave"
      /\ Tail(<<"install">>) = <<>> /\ After(<<"install">>) = "leave"
  BY DEF After
<1>2. /\ Tail(<<"log", "criticalFlush">>) = <<"criticalFlush">>
      /\ After(<<"log", "criticalFlush">>) = "m"
      /\ Tail(<<"flush", "install">>) = <<"install">>
      /\ After(<<"flush", "install">>) = "install"
      /\ Tail(<<"close", "install">>) = <<"install">>
      /\ After(<<"close", "install">>) = "install"
      /\ Tail(<<"install", "flush">>) = <<"flush">>
      /\ After(<<"install", "flush">>) = "m"
  BY DEF After
<1>3. /\ Tail(<<"flush", "close", "install">>) = <<"close", "install">>
      /\ After(<<"flush", "close", "install">>) = "m"
  BY DEF After
<1>4. /\ <<"close", "install">> \in Replaces
      /\ <<>> \notin Flushes \cup Replaces \cup Installs
      /\ <<"criticalFlush">> \in Flushes /\ <<"flush">> \in Flushes
      /\ <<"install">> \in Installs
  BY DEF Replaces, Flushes, Installs
<1>5. CASE t \in Logs
  <2>1. t # <<"close", "install">> /\ <<"criticalFlush">> \notin Installs \cup Replaces
    BY <1>4, <1>5, PartListsDiffer
  <2>2. CASE t = <<"log">>
    BY <1>1, <1>4, <2>1, <2>2
  <2>3. CASE t = <<"log", "criticalFlush">>
    BY <1>2, <1>4, <2>1, <2>3
  <2> QED  BY <1>5, <2>2, <2>3 DEF Logs
<1>6. CASE t \in Flushes
  <2>1. t # <<"close", "install">>
    BY <1>4, <1>6, PartListsDiffer
  <2>2. Tail(t) = <<>> /\ After(t) = "leave"
    BY <1>1, <1>6 DEF Flushes
  <2> QED  BY <1>4, <2>1, <2>2
<1>7. CASE t \in Replaces
  BY <1>2, <1>3, <1>4, <1>7 DEF Replaces
<1>8. CASE t \in Installs
  <2>1. t # <<"close", "install">> /\ <<"flush">> \notin Installs \cup Replaces
    BY <1>4, <1>8, PartListsDiffer
  <2>2. CASE t = <<"install">>
    BY <1>1, <1>4, <2>1, <2>2
  <2>3. CASE t = <<"install", "flush">>
    BY <1>2, <1>4, <2>1, <2>3
  <2> QED  BY <1>8, <2>2, <2>3 DEF Installs
<1> QED  BY <1>5, <1>6, <1>7, <1>8

\* What the package functions do, by the call.
LEMMA PartsOf ==
    ASSUME Types, NEW call \in {"Info", "Critical", "Flush", "UseLogger", "ReplaceLogger"},
           NEW g \in Loggers
    PROVE  /\ Parts(call, g) \in Logs \cup Flushes \cup Replaces \cup Installs
           /\ call \in {"Info", "Critical"} <=> Parts(call, g) \in Logs
           /\ call = "Flush" <=> Parts(call, g) \in Flushes
           /\ Head(Parts(call, g)) = "install" <=> Parts(call, g) \in Installs
<1>1. DOMAIN Methods = {"Info", "Critical", "Flush"} /\ closed[g] = FALSE
  BY DEF Methods, Types
<1>2. Methods["Info"] = <<"log">> /\ Methods["Critical"] = <<"log", "criticalFlush">>
      /\ Methods["Flush"] = <<"flush">>
  BY DEF Methods
<1>3. /\ call = "Info" => Parts(call, g) = <<"log">>
      /\ call = "Critical" => Parts(call, g) = <<"log", "criticalFlush">>
      /\ call = "Flush" => Parts(call, g) = <<"flush">>
      /\ call = "UseLogger" => Parts(call, g) = <<"install", "flush">>
      /\ call = "ReplaceLogger" => Parts(call, g) \in {<<"flush", "install">>,
                                                        <<"flush", "close", "install">>}
  BY <1>1, <1>2 DEF Parts
<1>4. /\ call \in {"Info", "Critical"} => Parts(call, g) \in Logs
      /\ call = "Flush" => Parts(call, g) \in Flushes
      /\ call = "UseLogger" => Parts(call, g) \in Installs
      /\ call = "ReplaceLogger" => Parts(call, g) \in Replaces
  BY <1>3 DEF Logs, Flushes, Installs, Replaces
<1> QED  BY <1>4, PartLists, PartListsDiffer

\* A message dispatched.
LEMMA DispatchTypes ==
    ASSUME Types, NEW g \in Loggers, NEW msg \in Message, Dispatch(g, msg)
    PROVE  /\ written' \in [Loggers -> Seq(Message)] /\ late' \subseteq Message
           /\ flushed' = flushed /\ writersClosed' = writersClosed
BY DEF Types, Dispatch

\* The first message of a queue, and the rest.
LEMMA QueueTypes ==
    ASSUME Types, NEW g \in Loggers
    PROVE  /\ msgQueue[g] \in Seq(Message) /\ written[g] \in Seq(Message)
           /\ msgQueue[g] # <<>> => Head(msgQueue[g]) \in Message /\ Tail(msgQueue[g]) \in Seq(Message)
<1>1. msgQueue[g] \in Seq(Message) /\ written[g] \in Seq(Message)
  BY DEF Types
<1> QED  BY <1>1, HeadTailProperties

\* A goroutine that does not move stays where it is.
LEMMA PlaceKept ==
    ASSUME NEW v \in Users, pc'[v] = pc[v], todo'[v] = todo[v], lg'[v] = lg[v],
           via'[v] = via[v], Place(v)
    PROVE  Place(v)'
BY DEF Place

\* The loggers start idle and empty.
LEMMA ShapesInit == ASSUME LoggerAssumption, Init PROVE Shapes
<1>1. <<>> \in Seq(Message)
  OBVIOUS
<1>2. Types
  BY <1>1 DEF Init, Types, LoggerAssumption
<1>3. CallTypes
  BY DEF Init, CallTypes, LoggerAssumption, Via, Locations
<1>4. \A u \in Users : Place(u)
  BY DEF Init, Place
<1> QED  BY <1>2, <1>3, <1>4 DEF Shapes

\* A call begins.
LEMMA ShapesCall ==
    ASSUME LoggerAssumption, Shapes, NEW u \in Users, NEW g \in Loggers, NEW by \in Via,
           NEW call \in {"Info", "Critical", "Flush", "UseLogger", "ReplaceLogger"},
           Call(u, call, by, g)
    PROVE  Shapes'
<1>1. Types'
  BY DEF Call, Shapes, Types, packageVars, lockVars, queueVars, writerVars, consumerVars
<1> DEFINE list == IF by = "package" THEN <<call>> ELSE Parts(call, g)
<1>2. <<call>> \in Called
  BY DEF Called
<1>3. by = "logger" => call \in {"Info", "Critical", "Flush"}
  BY DEF Call
<1>4. by = "logger" => list \in Logs \cup Flushes
  BY <1>3, PartsOf DEF Shapes
<1>5. list \in Called \cup Logs \cup Flushes /\ (by = "package" => list = <<call>>)
  BY <1>2, <1>4 DEF Via
<1>6. /\ todo' = [todo EXCEPT ![u] = list] /\ lg' = [lg EXCEPT ![u] = g]
      /\ via' = [via EXCEPT ![u] = by] /\ new' = [new EXCEPT ![u] = g]
      /\ pc' = [pc EXCEPT ![u] = IF by = "package" THEN "pkg" ELSE "m"]
      /\ before' = before
  BY DEF Call, Goto
<1>7. sent' \in [Users -> 0..MaxMessages]
  BY DEF Call, Shapes, CallTypes, LoggerAssumption
<1> HIDE DEF list
<1>8. CallTypes'
  BY <1>5, <1>6, <1>7 DEF Shapes, CallTypes, Locations
<1>9. Place(u)'
  BY <1>2, <1>4, <1>5, <1>6 DEF Shapes, CallTypes, Place, Via
<1>10. ASSUME NEW v \in Users \ {u} PROVE Place(v)'
  BY <1>6, PlaceKept DEF Shapes, CallTypes
<1> QED  BY <1>1, <1>8, <1>9, <1>10 DEF Shapes

\* The package functions' mutex.
LEMMA ShapesLockPkg ==
    ASSUME LoggerAssumption, Shapes, NEW u \in Users, LockPkg(u)
    PROVE  Shapes'
<1>1. Types'
  BY DEF LockPkg, Shapes, Types, lockVars, queueVars, writerVars, consumerVars
<1>2. todo[u] \in Called /\ via[u] = "package" /\ Current \in Loggers
  BY DEF LockPkg, Shapes, Place, Types
<1> DEFINE list == Parts(part(u), Current)
           l == IF Head(list) = "install" THEN "install" ELSE "m"
<1>3. part(u) \in {"Info", "Critical", "Flush", "UseLogger", "ReplaceLogger"}
  BY <1>2, PartLists DEF part
<1>4. /\ list \in Logs \cup Flushes \cup Replaces \cup Installs
      /\ Head(list) = "install" <=> list \in Installs
  BY <1>2, <1>3, PartsOf DEF Shapes
<1>5. /\ todo' = [todo EXCEPT ![u] = list] /\ lg' = [lg EXCEPT ![u] = Current]
      /\ pc' = [pc EXCEPT ![u] = l]
      /\ via' = via /\ new' = new /\ before' = before /\ sent' = sent
  BY DEF LockPkg, Goto
<1>6. (l = "install" /\ list \in Installs) \/ (l = "m" /\ list \in Logs \cup Flushes \cup Replaces)
  BY <1>4
<1> HIDE DEF list, l
<1>7. CallTypes'
  BY <1>2, <1>4, <1>5, <1>6 DEF Shapes, CallTypes, Locations
<1>8. Place(u)'
  BY <1>2, <1>5, <1>6 DEF Shapes, CallTypes, Place
<1>9. ASSUME NEW v \in Users \ {u} PROVE Place(v)'
  BY <1>5, PlaceKept DEF Shapes, CallTypes
<1> QED  BY <1>1, <1>7, <1>8, <1>9 DEF Shapes

\* A goroutine that only moves on, with the same list of parts.
LEMMA ShapesGoto ==
    ASSUME Shapes, NEW u \in Users, NEW l \in Locations, pc' = [pc EXCEPT ![u] = l],
           todo' = todo, lg' = lg, via' = via, new' = new, sent' = sent,
           before' \in [Users -> SUBSET Message], Types', Place(u)'
    PROVE  Shapes'
<1>1. CallTypes'
  BY DEF Shapes, CallTypes
<1>2. ASSUME NEW v \in Users \ {u} PROVE Place(v)'
  BY PlaceKept DEF Shapes, CallTypes
<1> QED  BY <1>1, <1>2 DEF Shapes

\* A message of one's own.
LEMMA MsgType ==
    ASSUME Shapes, NEW u \in Users, sent[u] \in 1..MaxMessages
    PROVE  Msg(u) \in Message
BY DEF Shapes, CallTypes, Message, Msg, Via

\* What a logger has accepted is messages.
LEMMA AcceptedType == ASSUME Types, NEW g \in Loggers PROVE Accepted(g) \subseteq Message
<1>1. msgQueue[g] \in Seq(Message) /\ written[g] \in Seq(Message)
  BY QueueTypes
<1>2. (\A i \in DOMAIN msgQueue[g] : msgQueue[g][i] \in Message)
      /\ (\A i \in DOMAIN written[g] : written[g][i] \in Message)
  BY <1>1, ElementOfSeq, LenProperties
<1> QED  BY <1>2 DEF Accepted, Range

\* The parts of a call on a logger, each with its mutex.
LEMMA ShapesPart ==
    ASSUME LoggerAssumption, Shapes, Queued, Ordered, NEW u \in Users,
           LockM(u) \/ LockL(u) \/ Drain(u) \/ Remove(u) \/ Push(u) \/ DispatchNow(u)
             \/ RootFlush(u) \/ RootClose(u)
    PROVE  Shapes'
<1> USE DEF Shapes
<1>0. /\ lg[u] \in Loggers /\ Kind[lg[u]] \in {"sync", "loop", "timer", "adaptive"}
      /\ closed[lg[u]] = FALSE /\ pc \in [Users -> Locations] /\ Place(u)
      /\ before \in [Users -> SUBSET Message]
  BY DEF LoggerAssumption, CallTypes, Types
<1>1. /\ \A t \in Logs : Head(t) = "log"
      /\ \A t \in Flushes \cup Replaces : Head(t) \in {"flush", "criticalFlush", "close"}
      /\ \A t \in Flushes \cup Replaces : Head(t) = "close" => t = <<"close", "install">>
  BY PartLists
<1>2. CASE LockM(u)
  <2> DEFINE l == CASE closed[lg[u]] -> "unlock"
                    [] ~closed[lg[u]] /\ Kind[lg[u]] # "sync" -> "L"
                    [] OTHER -> IF part(u) = "log" THEN "dispatch"
                                ELSE IF part(u) = "close" THEN "rootClose" ELSE "rootFlush"
  <2>1. /\ pc[u] = "m" /\ pc' = [pc EXCEPT ![u] = l] /\ m' = [m EXCEPT ![Mutex(u)] = u]
        /\ before' = [before EXCEPT ![u] = Accepted(lg[u])]
        /\ UNCHANGED <<packageVars, L, queueVars, writerVars, consumerVars>>
        /\ todo' = todo /\ lg' = lg /\ via' = via /\ new' = new /\ sent' = sent
    BY <1>2 DEF LockM, Goto
  <2>2. Types'
    BY <1>0, <2>1 DEF Types, packageVars, queueVars, writerVars, consumerVars, Mutex
  <2>3. todo[u] \in Logs \cup Flushes \cup Replaces
    BY <1>0, <2>1 DEF Place
  <2>4. \/ l = "L" /\ Kind[lg[u]] # "sync"
        \/ l = "dispatch" /\ Kind[lg[u]] = "sync" /\ todo[u] \in Logs
        \/ l = "rootClose" /\ todo[u] = <<"close", "install">>
        \/ l = "rootFlush" /\ todo[u] \in Flushes \cup Replaces
    BY <1>0, <1>1, <2>3 DEF part
  <2> HIDE DEF l
  <2>5. Place(u)' /\ l \in Locations
    BY <1>0, <2>1, <2>3, <2>4 DEF Place, Locations
  <2>6. before' \in [Users -> SUBSET Message]
    BY <1>0, <2>1, AcceptedType
  <2> QED  BY <2>1, <2>2, <2>5, <2>6, ShapesGoto
<1>3. CASE LockL(u)
  <2> DEFINE l == IF Overflows(u) THEN "drain" ELSE "push"
  <2>1. /\ pc[u] = "L" /\ pc' = [pc EXCEPT ![u] = l] /\ L' = [L EXCEPT ![lg[u]] = u]
        /\ UNCHANGED <<packageVars, m, queueVars, writerVars, consumerVars>>
        /\ todo' = todo /\ lg' = lg /\ via' = via /\ new' = new /\ sent' = sent
        /\ before' = before
    BY <1>3 DEF LockL, Goto
  <2>2. Types'
    BY <1>0, <2>1 DEF Types, packageVars, queueVars, writerVars, consumerVars
  <2>3. l = "drain" \/ (l = "push" /\ todo[u] \in Logs)
    BY <1>0, <1>1, <2>1 DEF Place, Overflows, part
  <2> HIDE DEF l
  <2>4. Place(u)' /\ l \in Locations
    BY <1>0, <2>1, <2>3 DEF Place, Locations
  <2> QED  BY <1>0, <2>1, <2>2, <2>4, ShapesGoto
<1>4. CASE Drain(u)
  <2>1. /\ pc[u] = "drain"
        /\ UNCHANGED <<packageVars, m, queueVars, consumerVars>>
        /\ todo' = todo /\ lg' = lg /\ via' = via /\ new' = new /\ sent' = sent
        /\ before' = before
    BY <1>4 DEF Drain
  <2>2. todo[u] \in Logs \cup Flushes \cup Replaces /\ Kind[lg[u]] # "sync"
    BY <1>0, <2>1 DEF Place
  <2>3. CASE msgQueue[lg[u]] = <<>>
    <3> DEFINE l == IF part(u) = "log" THEN "push" ELSE "rootFlush"
    <3>1. /\ pc' = [pc EXCEPT ![u] = l]
          /\ L' = [L EXCEPT ![lg[u]] = IF part(u) = "log" THEN u ELSE Nil]
          /\ UNCHANGED writerVars
      BY <1>4, <2>3 DEF Drain, Goto
    <3>2. Types'
      BY <1>0, <2>1, <3>1 DEF Types, packageVars, queueVars, writerVars, consumerVars
    <3>3. (l = "push" /\ todo[u] \in Logs) \/ (l = "rootFlush" /\ todo[u] \in Flushes \cup Replaces)
      BY <1>1, <2>2 DEF part
    <3> HIDE DEF l
    <3>4. Place(u)' /\ l \in Locations
      BY <1>0, <2>1, <2>2, <3>1, <3>3 DEF Place, Locations
    <3> QED  BY <1>0, <2>1, <3>1, <3>2, <3>4, ShapesGoto
  <2>4. CASE msgQueue[lg[u]] # <<>>
    <3>1. /\ pc' = [pc EXCEPT ![u] = "remove"] /\ L' = L
          /\ Dispatch(lg[u], Head(msgQueue[lg[u]]))
      BY <1>4, <2>4 DEF Drain, Goto
    <3>2. Types'
      BY <1>0, <2>1, <2>4, <3>1, QueueTypes, DispatchTypes DEF Types, packageVars, queueVars, consumerVars
    <3>3. Place(u)' /\ "remove" \in Locations
      BY <1>0, <2>1, <2>2, <3>1 DEF Place, Locations
    <3> QED  BY <1>0, <2>1, <3>1, <3>2, <3>3, ShapesGoto
  <2> QED  BY <2>3, <2>4
<1>5. CASE Remove(u)
  <2>1. /\ pc[u] = "remove" /\ pc' = [pc EXCEPT ![u] = "drain"]
        /\ msgQueue' = [msgQueue EXCEPT ![lg[u]] = Tail(msgQueue[lg[u]])]
        /\ UNCHANGED <<packageVars, lockVars, closed, writerVars, consumerVars>>
        /\ todo' = todo /\ lg' = lg /\ via' = via /\ new' = new /\ sent' = sent
        /\ before' = before
    BY <1>5 DEF Remove, Goto
  <2>2. Tail(msgQueue[lg[u]]) \in Seq(Message)
    BY <1>0, <2>1, QueueTypes DEF Queued, Taken
  <2>3. Types'
    BY <1>0, <2>1, <2>2 DEF Types, packageVars, lockVars, writerVars, consumerVars
  <2>4. Place(u)' /\ "drain" \in Locations
    BY <1>0, <2>1 DEF Place, Locations
  <2> QED  BY <1>0, <2>1, <2>3, <2>4, ShapesGoto
<1>6. CASE Push(u)
  <2>1. /\ pc[u] = "push" /\ pc' = [pc EXCEPT ![u] = "unlock"]
        /\ msgQueue' = [msgQueue EXCEPT ![lg[u]] = Append(msgQueue[lg[u]], Msg(u))]
        /\ L' = [L EXCEPT ![lg[u]] = Nil] /\ Broadcast(lg[u])
        /\ UNCHANGED <<packageVars, m, closed, writerVars>>
        /\ todo' = todo /\ lg' = lg /\ via' = via /\ new' = new /\ sent' = sent
        /\ before' = before
    BY <1>6 DEF Push, Goto
  <2>2. todo[u] \in Logs
    BY <1>0, <2>1 DEF Place
  <2>3. sent[u] \in 1..MaxMessages
    BY <2>1, <2>2 DEF Ordered, Unsent
  <2>4. Append(msgQueue[lg[u]], Msg(u)) \in Seq(Message)
    BY <1>0, <2>3, MsgType, QueueTypes, AppendProperties
  <2>5. Types'
    BY <1>0, <2>1, <2>4 DEF Types, packageVars, writerVars, Broadcast
  <2>6. Place(u)' /\ "unlock" \in Locations
    BY <1>0, <2>1, <2>2 DEF Place, Locations
  <2> QED  BY <1>0, <2>1, <2>5, <2>6, ShapesGoto
<1>7. CASE DispatchNow(u)
  <2>1. /\ pc[u] = "dispatch" /\ pc' = [pc EXCEPT ![u] = "unlock"]
        /\ Dispatch(lg[u], Msg(u))
        /\ UNCHANGED <<packageVars, lockVars, queueVars, consumerVars>>
        /\ todo' = todo /\ lg' = lg /\ via' = via /\ new' = new /\ sent' = sent
        /\ before' = before
    BY <1>7 DEF DispatchNow, Goto
  <2>2. todo[u] \in Logs
    BY <1>0, <2>1 DEF Place
  <2>3. Msg(u) \in Message
    BY <2>1, <2>2, MsgType DEF Ordered, Unsent
  <2>4. Types'
    BY <1>0, <2>1, <2>3, DispatchTypes DEF Types, packageVars, lockVars, queueVars, consumerVars
  <2>5. Place(u)' /\ "unlock" \in Locations
    BY <1>0, <2>1, <2>2 DEF Place, Locations
  <2> QED  BY <1>0, <2>1, <2>4, <2>5, ShapesGoto
<1>8. CASE RootFlush(u)
  <2> DEFINE l == IF part(u) = "close" THEN "rootClose" ELSE "unlock"
  <2>1. /\ pc[u] = "rootFlush" /\ pc' = [pc EXCEPT ![u] = l]
        /\ flushed' = [flushed EXCEPT ![lg[u]] = Len(written[lg[u]])]
        /\ UNCHANGED <<packageVars, lockVars, queueVars, written, writersClosed, late, consumerVars>>
        /\ todo' = todo /\ lg' = lg /\ via' = via /\ new' = new /\ sent' = sent
        /\ before' = before
    BY <1>8 DEF RootFlush, Goto
  <2>2. Len(written[lg[u]]) \in Nat
    BY <1>0, QueueTypes, LenProperties
  <2>3. Types'
    BY <1>0, <2>1, <2>2 DEF Types, packageVars, lockVars, queueVars, consumerVars
  <2>4. todo[u] \in Flushes \cup Replaces
    BY <1>0, <2>1 DEF Place
  <2>5. l = "unlock" \/ (l = "rootClose" /\ todo[u] = <<"close", "install">>)
    BY <1>1, <2>4 DEF part
  <2> HIDE DEF l
  <2>6. Place(u)' /\ l \in Locations
    BY <1>0, <2>1, <2>4, <2>5 DEF Place, Locations
  <2> QED  BY <1>0, <2>1, <2>3, <2>6, ShapesGoto
<1>9. CASE RootClose(u)
  <2>1. /\ pc[u] = "rootClose" /\ pc' = [pc EXCEPT ![u] = "unlock"]
        /\ writersClosed' = [writersClosed EXCEPT ![lg[u]] = TRUE] /\ Broadcast(lg[u])
        /\ UNCHANGED <<packageVars, lockVars, queueVars, written, flushed, late>>
        /\ todo' = todo /\ lg' = lg /\ via' = via /\ new' = new /\ sent' = sent
        /\ before' = before
    BY <1>9 DEF RootClose, Goto
  <2>2. Types'
    BY <1>0, <2>1 DEF Types, packageVars, lockVars, queueVars, Broadcast
  <2>3. todo[u] = <<"close", "install">> /\ <<"close", "install">> \in Replaces
    BY <1>0, <2>1 DEF Place, Replaces
  <2>4. Place(u)' /\ "unlock" \in Locations
    BY <1>0, <2>1, <2>3 DEF Place, Locations
  <2> QED  BY <1>0, <2>1, <2>2, <2>4, ShapesGoto
<1> QED  BY <1>2, <1>3, <1>4, <1>5, <1>6, <1>7, <1>8, <1>9

\* The end of a part, and of a call.
LEMMA ShapesEnd ==
    ASSUME LoggerAssumption, Shapes, NEW u \in Users, Unlock(u) \/ Install(u) \/ Leave(u)
    PROVE  Shapes'
<1> USE DEF Shapes
<1>1. CASE Leave(u)
  <2>1. /\ pc[u] = "leave" /\ pc' = [pc EXCEPT ![u] = "idle"]
        /\ lg' = [lg EXCEPT ![u] = Default] /\ via' = [via EXCEPT ![u] = "package"]
        /\ new' = [new EXCEPT ![u] = Default]
        /\ pkgMutex' \in {pkgMutex, Nil}
        /\ UNCHANGED <<Current, lockVars, queueVars, writerVars, consumerVars, todo, before, sent>>
    BY <1>1 DEF Leave, Goto
  <2>2. Types'
    BY <2>1 DEF Types, lockVars, queueVars, writerVars, consumerVars
  <2>3. CallTypes'
    BY <2>1 DEF CallTypes, Locations, Via, LoggerAssumption
  <2>4. Place(u)'
    BY <2>1 DEF Place, CallTypes
  <2>5. ASSUME NEW v \in Users \ {u} PROVE Place(v)'
    BY <2>1, PlaceKept DEF CallTypes
  <2> QED  BY <2>2, <2>3, <2>4, <2>5
<1>2. CASE Unlock(u) \/ Install(u)
  <2>1. /\ pc' = [pc EXCEPT ![u] = After(todo[u])] /\ todo' = [todo EXCEPT ![u] = Tail(todo[u])]
        /\ pc[u] \in {"unlock", "install"}
        /\ lg' = lg /\ via' = via /\ new' = new /\ sent' = sent
        /\ before' \in {before, [before EXCEPT ![u] = {}]}
        /\ UNCHANGED <<pkgMutex, L, queueVars, writerVars, consumerVars>>
    BY <1>2 DEF Unlock, Install, Proceed, Goto, packageVars, lockVars, After
  <2>2. m' \in {m, [m EXCEPT ![Mutex(u)] = Nil]} /\ Current' \in {Current, new[u]}
    BY <1>2 DEF Unlock, Install, packageVars, lockVars
  <2>3. Types'
    <3>1. m' \in [Loggers \X {"outer", "inner"} -> Users \cup {Nil}] /\ Current' \in Loggers
      <4> DEFINE x == Mutex(u)
      <4>1. m \in [Loggers \X {"outer", "inner"} -> Users \cup {Nil}] /\ m' \in {m, [m EXCEPT ![x] = Nil]}
        BY <2>2 DEF Types
      <4> HIDE DEF x
      <4>2. m' \in [Loggers \X {"outer", "inner"} -> Users \cup {Nil}]
        BY <4>1
      <4> QED  BY <2>2, <4>2 DEF Types, CallTypes
    <3>2. UNCHANGED <<pkgMutex, L, queueVars, writerVars, consumerVars>>
      BY <2>1
    <3> QED  BY <3>1, <3>2 DEF Types, queueVars, writerVars, consumerVars
  <2>4. /\ todo[u] \in Logs \cup Flushes \cup Replaces \cup Installs
        /\ via[u] = "logger" => todo[u] \in Logs \cup Flushes \cup {<<>>}
    BY <2>1 DEF Place
  <2>5. /\ Tail(todo[u]) \in {<<>>} \cup Flushes \cup Replaces \cup Installs
        /\ After(todo[u]) \in {"leave", "install", "m"}
        /\ After(todo[u]) = "leave" => Tail(todo[u]) = <<>>
        /\ After(todo[u]) = "install" => Tail(todo[u]) = <<"install">>
        /\ After(todo[u]) = "m" => Tail(todo[u]) \in Flushes \cup Replaces
        /\ Tail(todo[u]) \in Installs \cup Replaces => todo[u] \in Replaces
    BY <2>4, PartsLeft
  <2>6. <<"install">> \in Installs
    BY DEF Installs
  <2>7. CallTypes'
    BY <2>1, <2>5 DEF CallTypes, Locations
  <2>8. via[u] = "logger" => Tail(todo[u]) \in Flushes \cup {<<>>}
    BY <2>4, <2>5, PartListsDiffer
  <2>9. Place(u)'
    <3> DEFINE l == After(todo[u])
               t == Tail(todo[u])
    <3>1. pc'[u] = l /\ todo'[u] = t /\ via'[u] = via[u] /\ lg'[u] = lg[u]
      BY <2>1 DEF CallTypes
    <3>2. \/ l = "leave" /\ t = <<>>
          \/ l = "install" /\ t \in Installs
          \/ l = "m" /\ t \in Flushes \cup Replaces
      BY <2>5, <2>6
    <3>3. via[u] = "logger" => t \in Flushes \cup {<<>>}
      BY <2>8
    <3> HIDE DEF l, t
    <3> QED  BY <3>1, <3>2, <3>3 DEF Place
  <2>10. ASSUME NEW v \in Users \ {u} PROVE Place(v)'
    BY <2>1, PlaceKept DEF CallTypes
  <2> QED  BY <2>3, <2>7, <2>9, <2>10
<1> QED  BY <1>1, <1>2

\* The consumer goroutines.
LEMMA ShapesConsume ==
    ASSUME LoggerAssumption, Shapes, Queued, NEW g \in Loggers, Consume(g)
    PROVE  Shapes'
<1> USE DEF Shapes
<1>1. Types'
  <2>1. CASE Wait(g)
    <3>1. /\ L' = L \/ L' = [L EXCEPT ![g] = g]
          /\ \E c \in {"ended", "waiting", "process"} : cpc' = [cpc EXCEPT ![g] = c]
          /\ UNCHANGED <<packageVars, m, queueVars, writerVars>>
      BY <2>1 DEF Wait
    <3>2. L' \in [Loggers -> Users \cup Loggers \cup {Nil}]
      <4>1. L \in [Loggers -> Users \cup Loggers \cup {Nil}] /\ (L' = L \/ L' = [L EXCEPT ![g] = g])
        BY <3>1 DEF Types
      <4> QED  BY <4>1
    <3>3. cpc' \in [Loggers -> {"none", "ready", "waiting", "process", "remove", "pause", "ended"}]
      BY <3>1 DEF Types
    <3> QED  BY <3>1, <3>2, <3>3 DEF Types, packageVars, queueVars, writerVars
  <2>2. CASE Process(g)
    <3>1. Head(msgQueue[g]) \in Message
      BY <2>2, QueueTypes DEF Process, Queued
    <3>2. /\ written' \in [Loggers -> Seq(Message)] /\ late' \subseteq Message
          /\ flushed' = flushed /\ writersClosed' = writersClosed
      BY <2>2, <3>1, DispatchTypes DEF Process
    <3>3. cpc' = [cpc EXCEPT ![g] = "remove"] /\ UNCHANGED <<packageVars, lockVars, queueVars>>
      BY <2>2 DEF Process
    <3> QED  BY <3>2, <3>3 DEF Types, packageVars, lockVars, queueVars
  <2>3. CASE Processed(g)
    <3>1. Tail(msgQueue[g]) \in Seq(Message)
      BY <2>3, QueueTypes DEF Processed, Queued, Taken
    <3> QED  BY <2>3, <3>1 DEF Processed, Types, packageVars, writerVars
  <2>4. CASE Pause(g)
    <3>1. /\ cpc' = [cpc EXCEPT ![g] = "ready"]
          /\ UNCHANGED <<packageVars, lockVars, queueVars, writerVars>>
      BY <2>4 DEF Pause
    <3> QED  BY <3>1 DEF Types, packageVars, lockVars, queueVars, writerVars
  <2> QED  BY <2>1, <2>2, <2>3, <2>4 DEF Consume
<1>2. UNCHANGED <<pc, todo, lg, via, new, before, sent>>
  BY DEF Consume, Wait, Process, Processed, Pause, callVars
<1>3. CallTypes'
  BY <1>2 DEF CallTypes
<1>4. \A u \in Users : Place(u)'
  BY <1>2, PlaceKept
<1> QED  BY <1>1, <1>3, <1>4

\* Every variable has its type, and every call goes through its parts in order.
LEMMA ShapesStep ==
    ASSUME LoggerAssumption, Shapes, Queued, Ordered, [Next]_vars
    PROVE  Shapes'
<1>1. CASE UNCHANGED vars
  <2>1. Types' /\ CallTypes'
    BY <1>1 DEF vars, Shapes, Types, CallTypes, packageVars, lockVars, queueVars, writerVars,
                consumerVars, callVars
  <2>2. \A u \in Users : Place(u)'
    BY <1>1, PlaceKept DEF vars, Shapes, callVars
  <2> QED  BY <2>1, <2>2 DEF Shapes
<1>2. ASSUME NEW u \in Users, Step(u) PROVE Shapes'
  BY <1>2, ShapesLockPkg, ShapesPart, ShapesEnd DEF Step
<1>3. ASSUME NEW u \in Users, NEW g \in Loggers, NEW by \in Via,
             NEW call \in {"Info", "Critical", "Flush", "UseLogger", "ReplaceLogger"},
             Call(u, call, by, g)
      PROVE  Shapes'
  BY <1>3, ShapesCall
<1>4. ASSUME NEW g \in Loggers, Consume(g) PROVE Shapes'
  BY <1>4, ShapesConsume
<1> QED  BY <1>1, <1>2, <1>3, <1>4 DEF Next, Via

Critical == {"drain", "remove", "push"}
Consuming == {"process", "remove"}

\* A goroutine that does not come to hold a queue's lock, and no lock changes hands.
LEMMA LockedKept ==
    ASSUME Locked, NEW u \in Users, L' = L,
           \A v \in Users \ {u} : pc'[v] = pc[v] /\ lg'[v] = lg[v],
           pc'[u] \in Critical => pc[u] \in Critical /\ lg'[u] = lg[u],
           \A g \in Loggers : cpc'[g] \in Consuming => cpc[g] \in Consuming
    PROVE  Locked'
BY DEF Locked, Critical, Consuming

\* A broadcast wakes nobody up who is at work.
LEMMA BroadcastKeeps ==
    ASSUME Types, NEW g \in Loggers, Broadcast(g)
    PROVE  \A h \in Loggers : (cpc'[h] \in Consuming <=> cpc[h] \in Consuming)
                              /\ (cpc'[h] = "remove" <=> cpc[h] = "remove")
BY DEF Types, Broadcast, Consuming

\* A goroutine that gives a lock back.
LEMMA LockedReleased ==
    ASSUME LoggerAssumption, Shapes, Locked, NEW u \in Users, pc[u] \in Critical,
           L' = [L EXCEPT ![lg[u]] = Nil],
           \A v \in Users \ {u} : pc'[v] = pc[v] /\ lg'[v] = lg[v],
           pc'[u] \notin Critical,
           \A g \in Loggers : cpc'[g] \in Consuming => cpc[g] \in Consuming
    PROVE  Locked'
<1>1. L[lg[u]] = u /\ lg[u] \in Loggers /\ u \notin Loggers
  BY DEF Locked, Critical, Shapes, CallTypes, LoggerAssumption
<1>2. ASSUME NEW v \in Users, pc'[v] \in Critical PROVE L'[lg'[v]] = v
  <2>1. v # u /\ pc[v] \in Critical /\ lg'[v] = lg[v] /\ lg[v] \in Loggers
    BY <1>2 DEF Shapes, CallTypes
  <2>2. L[lg[v]] = v
    BY <2>1 DEF Locked, Critical
  <2> QED  BY <1>1, <2>1, <2>2 DEF Shapes, Types
<1>3. ASSUME NEW g \in Loggers, cpc'[g] \in Consuming PROVE L'[g] = g
  <2>1. L[g] = g
    BY <1>3 DEF Locked, Consuming
  <2> QED  BY <1>1, <2>1 DEF Shapes, Types
<1> QED  BY <1>2, <1>3 DEF Locked, Critical, Consuming

\* A goroutine that takes a lock which is free.
LEMMA LockedTaken ==
    ASSUME LoggerAssumption, Shapes, Locked, NEW u \in Users, L[lg[u]] = Nil,
           L' = [L EXCEPT ![lg[u]] = u], lg' = lg, cpc' = cpc,
           \A v \in Users \ {u} : pc'[v] = pc[v]
    PROVE  Locked'
<1>1. lg[u] \in Loggers /\ Nil \notin Users \cup Loggers
  BY DEF Shapes, CallTypes, LoggerAssumption
<1>2. ASSUME NEW v \in Users, pc'[v] \in Critical PROVE L'[lg'[v]] = v
  <2>1. CASE v = u
    BY <1>1, <2>1 DEF Shapes, Types
  <2>2. CASE v # u
    <3>1. L[lg[v]] = v /\ lg[v] \in Loggers
      BY <1>2, <2>2 DEF Locked, Critical, Shapes, CallTypes
    <3> QED  BY <1>1, <3>1 DEF Shapes, Types
  <2> QED  BY <2>1, <2>2
<1>3. ASSUME NEW g \in Loggers, cpc'[g] \in Consuming PROVE L'[g] = g
  <2>1. L[g] = g
    BY <1>3 DEF Locked, Consuming
  <2> QED  BY <1>1, <2>1 DEF Shapes, Types
<1> QED  BY <1>2, <1>3 DEF Locked, Critical, Consuming

\* Nobody touches a queue without its lock.
LEMMA LockedStep ==
    ASSUME LoggerAssumption, Shapes, Locked, [Next]_vars
    PROVE  Locked'
<1>1. CASE UNCHANGED vars
  BY <1>1 DEF vars, lockVars, consumerVars, callVars, Locked
<1>2. ASSUME NEW u \in Users, Step(u) PROVE Locked'
  <2>0. /\ lg[u] \in Loggers /\ pc \in [Users -> Locations] /\ lg \in [Users -> Loggers]
        /\ cpc \in [Loggers -> {"none", "ready", "waiting", "process", "remove", "pause", "ended"}]
        /\ L \in [Loggers -> Users \cup Loggers \cup {Nil}]
    BY DEF Shapes, CallTypes, Types
  <2>1. CASE LockL(u)
    <3>1. /\ L[lg[u]] = Nil /\ L' = [L EXCEPT ![lg[u]] = u] /\ lg' = lg /\ cpc' = cpc
          /\ \A v \in Users \ {u} : pc'[v] = pc[v]
      BY <2>0, <2>1 DEF LockL, Goto, consumerVars
    <3> QED  BY <3>1, LockedTaken
  <2>2. CASE Drain(u) /\ msgQueue[lg[u]] = <<>>
    <3>1. /\ pc[u] = "drain" /\ lg' = lg /\ cpc' = cpc
          /\ pc' = [pc EXCEPT ![u] = IF part(u) = "log" THEN "push" ELSE "rootFlush"]
          /\ L' = [L EXCEPT ![lg[u]] = IF part(u) = "log" THEN u ELSE Nil]
      BY <2>2 DEF Drain, Goto, consumerVars
    <3>2. \A v \in Users \ {u} : pc'[v] = pc[v] /\ lg'[v] = lg[v]
      BY <2>0, <3>1
    <3>3. CASE part(u) = "log"
      <4>1. L[lg[u]] = u
        BY <3>1 DEF Locked
      <4>2. L' = L
        BY <2>0, <3>1, <3>3, <4>1
      <4> QED  BY <3>1, <3>2, <4>2, LockedKept DEF Critical
    <3>4. CASE part(u) # "log"
      <4>1. pc'[u] \notin Critical /\ pc[u] \in Critical /\ L' = [L EXCEPT ![lg[u]] = Nil]
        BY <2>0, <3>1, <3>4 DEF Critical
      <4> QED  BY <3>1, <3>2, <4>1, LockedReleased
    <3> QED  BY <3>3, <3>4
  <2>3. CASE Drain(u) /\ msgQueue[lg[u]] # <<>>
    <3>1. /\ pc[u] = "drain" /\ lg' = lg /\ cpc' = cpc /\ L' = L
          /\ pc' = [pc EXCEPT ![u] = "remove"]
      BY <2>3 DEF Drain, Goto, consumerVars
    <3> QED  BY <2>0, <3>1, LockedKept DEF Critical
  <2>4. CASE Push(u)
    <3>1. /\ pc[u] = "push" /\ pc' = [pc EXCEPT ![u] = "unlock"] /\ lg' = lg
          /\ Broadcast(lg[u]) /\ L' = [L EXCEPT ![lg[u]] = Nil]
      BY <2>4 DEF Push, Goto
    <3>2. \A g \in Loggers : cpc'[g] \in Consuming => cpc[g] \in Consuming
      BY <2>0, <3>1, BroadcastKeeps DEF Shapes
    <3>3. /\ pc'[u] \notin Critical /\ pc[u] \in Critical
          /\ \A v \in Users \ {u} : pc'[v] = pc[v] /\ lg'[v] = lg[v]
      BY <2>0, <3>1 DEF Critical
    <3> QED  BY <3>1, <3>2, <3>3, LockedReleased
  <2>5. CASE RootClose(u)
    <3>1. /\ pc' = [pc EXCEPT ![u] = "unlock"] /\ lg' = lg /\ Broadcast(lg[u]) /\ L' = L
      BY <2>5 DEF RootClose, Goto, lockVars
    <3>2. \A g \in Loggers : cpc'[g] \in Consuming => cpc[g] \in Consuming
      BY <2>0, <3>1, BroadcastKeeps DEF Shapes
    <3> QED  BY <2>0, <3>1, <3>2, LockedKept DEF Critical
  <2>6. CASE Remove(u)
    <3>1. pc[u] = "remove" /\ pc' = [pc EXCEPT ![u] = "drain"] /\ lg' = lg /\ L' = L /\ cpc' = cpc
      BY <2>6 DEF Remove, Goto, lockVars, consumerVars
    <3> QED  BY <2>0, <3>1, LockedKept DEF Critical
  <2>7. CASE LockM(u)
    <3>1. L' = L /\ cpc' = cpc /\ lg' = lg /\ closed[lg[u]] = FALSE
          /\ \E l \in Locations \ Critical : pc' = [pc EXCEPT ![u] = l]
      BY <2>0, <2>7 DEF LockM, Goto, consumerVars, Locations, Critical, Shapes, Types
    <3> QED  BY <2>0, <3>1, LockedKept
  <2>8. CASE LockPkg(u)
    <3>1. L' = L /\ cpc' = cpc /\ lg' = [lg EXCEPT ![u] = Current]
          /\ \E l \in {"install", "m"} : pc' = [pc EXCEPT ![u] = l]
      BY <2>8 DEF LockPkg, Goto, lockVars, consumerVars
    <3> QED  BY <2>0, <3>1, LockedKept DEF Critical
  <2>9. CASE DispatchNow(u) \/ RootFlush(u)
    <3>1. L' = L /\ cpc' = cpc /\ lg' = lg
          /\ \E l \in {"unlock", "rootClose"} : pc' = [pc EXCEPT ![u] = l]
      BY <2>9 DEF DispatchNow, RootFlush, Goto, lockVars, consumerVars
    <3> QED  BY <2>0, <3>1, LockedKept DEF Critical
  <2>10. CASE Unlock(u) \/ Install(u)
    <3>1. L' = L /\ cpc' = cpc /\ lg' = lg
          /\ \E l \in {"leave", "install", "m"} : pc' = [pc EXCEPT ![u] = l]
      BY <2>10 DEF Unlock, Install, Proceed, Goto, lockVars, consumerVars
    <3> QED  BY <2>0, <3>1, LockedKept DEF Critical
  <2>11. CASE Leave(u)
    <3>1. L' = L /\ cpc' = cpc /\ pc' = [pc EXCEPT ![u] = "idle"] /\ lg' = [lg EXCEPT ![u] = Default]
      BY <2>11 DEF Leave, Goto, lockVars, consumerVars
    <3> QED  BY <2>0, <3>1, LockedKept DEF Critical
  <2> QED  BY <1>2, <2>1, <2>2, <2>3, <2>4, <2>5, <2>6, <2>7, <2>8, <2>9, <2>10, <2>11 DEF Step
<1>3. ASSUME NEW u \in Users, NEW g \in Loggers, NEW by \in Via,
             NEW call \in {"Info", "Critical", "Flush", "UseLogger", "ReplaceLogger"},
             Call(u, call, by, g)
      PROVE  Locked'
  <2>1. L' = L /\ cpc' = cpc /\ lg' = [lg EXCEPT ![u] = g]
        /\ \E l \in {"pkg", "m"} : pc' = [pc EXCEPT ![u] = l]
    BY <1>3 DEF Call, Goto, lockVars, consumerVars
  <2>2. pc \in [Users -> Locations] /\ lg \in [Users -> Loggers]
    BY DEF Shapes, CallTypes
  <2> QED  BY <2>1, <2>2, LockedKept DEF Critical
<1>4. ASSUME NEW g \in Loggers, Consume(g) PROVE Locked'
  <2>0. /\ cpc \in [Loggers -> {"none", "ready", "waiting", "process", "remove", "pause", "ended"}]
        /\ L \in [Loggers -> Users \cup Loggers \cup {Nil}] /\ lg \in [Users -> Loggers]
        /\ Nil \notin Users \cup Loggers /\ Users \cap Loggers = {}
    BY DEF Shapes, CallTypes, Types, LoggerAssumption
  <2>1. pc' = pc /\ lg' = lg
    BY <1>4 DEF Consume, Wait, Process, Processed, Pause, callVars
  <2>2. CASE Wait(g) \/ Pause(g)
    <3>1. \/ L' = L /\ \E c \in {"ended", "waiting", "ready"} : cpc' = [cpc EXCEPT ![g] = c]
          \/ L[g] = Nil /\ L' = [L EXCEPT ![g] = g] /\ cpc' = [cpc EXCEPT ![g] = "process"]
      BY <2>2 DEF Wait, Pause, lockVars
    <3> QED  BY <2>0, <2>1, <3>1 DEF Locked
  <2>3. CASE Process(g)
    <3>1. L' = L /\ cpc[g] = "process" /\ cpc' = [cpc EXCEPT ![g] = "remove"]
      BY <2>3 DEF Process, lockVars
    <3> QED  BY <2>0, <2>1, <3>1 DEF Locked
  <2>4. CASE Processed(g)
    <3>1. L' = [L EXCEPT ![g] = Nil] /\ cpc[g] = "remove"
          /\ \E c \in {"ready", "pause"} : cpc' = [cpc EXCEPT ![g] = c]
      BY <2>4 DEF Processed
    <3>2. L[g] = g
      BY <3>1 DEF Locked
    <3> QED  BY <2>0, <2>1, <3>1, <3>2 DEF Locked
  <2> QED  BY <1>4, <2>2, <2>3, <2>4 DEF Consume
<1> QED  BY <1>1, <1>2, <1>3, <1>4 DEF Next, Via

\* What a step does to a logger's queue and writers: nothing, the first message of the
\* queue is written, it is taken off, or a goroutine's message is accepted.
Rests(g) ==
    /\ written'[g] = written[g] /\ msgQueue'[g] = msgQueue[g]
    /\ Taken(g)' <=> Taken(g)

Takes(g) ==
    /\ msgQueue[g] # <<>> /\ msgQueue'[g] = msgQueue[g]
    /\ written'[g] = Append(written[g], Head(msgQueue[g]))
    /\ ~Taken(g) /\ Taken(g)'

Drops(g) ==
    /\ msgQueue[g] # <<>> /\ msgQueue'[g] = Tail(msgQueue[g])
    /\ written'[g] = written[g]
    /\ Taken(g) /\ ~Taken(g)' /\ cpc'[g] # "process"

Grows(g, u) ==
    /\ lg[u] = g /\ todo[u] \in Logs /\ pc' = [pc EXCEPT ![u] = "unlock"]
    /\ UNCHANGED <<todo, lg, via, sent, writersClosed>>
    /\ ~Taken(g) /\ ~Taken(g)'
    /\ \/ /\ pc[u] = "push" /\ Len(msgQueue[g]) < MaxQueueSize
          /\ written'[g] = written[g] /\ msgQueue'[g] = Append(msgQueue[g], Msg(u))
       \/ /\ pc[u] = "dispatch"
          /\ msgQueue[g] = <<>> /\ msgQueue'[g] = <<>>
          /\ written'[g] = Append(written[g], Msg(u))

Changes(g) == Rests(g) \/ Takes(g) \/ Drops(g) \/ \E u \in Users : Grows(g, u)

\* The lock of a queue keeps two from taking the same message.
LEMMA NotTaken ==
    ASSUME LoggerAssumption, Shapes, Locked, NEW u \in Users, pc[u] \in {"drain", "push"}
    PROVE  ~Taken(lg[u])
<1>1. L[lg[u]] = u /\ lg[u] \in Loggers /\ u \notin Loggers
  BY DEF Locked, Shapes, CallTypes, LoggerAssumption
<1>2. cpc[lg[u]] # "remove"
  BY <1>1 DEF Locked
<1>3. ASSUME NEW v \in Users, pc[v] = "remove", lg[v] = lg[u] PROVE FALSE
  <2>1. L[lg[v]] = v
    BY <1>3 DEF Locked
  <2> QED  BY <1>1, <1>3, <2>1
<1> QED  BY <1>2, <1>3 DEF Taken

\* Nor is anybody else taking the message one has taken.
LEMMA TakenOnce ==
    ASSUME LoggerAssumption, Shapes, Locked, NEW u \in Users, pc[u] = "remove"
    PROVE  /\ cpc[lg[u]] \notin Consuming
           /\ \A v \in Users \ {u} : ~(pc[v] = "remove" /\ lg[v] = lg[u])
<1>1. L[lg[u]] = u /\ lg[u] \in Loggers /\ u \notin Loggers
  BY DEF Locked, Shapes, CallTypes, LoggerAssumption
<1>2. \A v \in Users : pc[v] = "remove" => L[lg[v]] = v
  BY DEF Locked
<1>3. cpc[lg[u]] \notin Consuming
  BY <1>1 DEF Locked, Consuming
<1> QED  BY <1>1, <1>2, <1>3

\* Nor a goroutine the one its logger's consumer has at hand.
LEMMA NotTakenTwice ==
    ASSUME LoggerAssumption, Shapes, Locked, NEW g \in Loggers, cpc[g] \in Consuming
    PROVE  \A v \in Users : ~(pc[v] = "remove" /\ lg[v] = g)
<1>1. L[g] = g /\ g \notin Users
  BY DEF Locked, LoggerAssumption, Consuming
<1>2. \A v \in Users : pc[v] = "remove" => L[lg[v]] = v
  BY DEF Locked
<1> QED  BY <1>1, <1>2

\* Steps that take nothing leave what is taken.
LEMMA TakenKept ==
    ASSUME NEW u \in Users, NEW h \in Loggers,
           \A v \in Users \ {u} : pc'[v] = pc[v] /\ lg'[v] = lg[v],
           (pc'[u] = "remove" /\ lg'[u] = h) <=> (pc[u] = "remove" /\ lg[u] = h),
           cpc'[h] = "remove" <=> cpc[h] = "remove"
    PROVE  Taken(h)' <=> Taken(h)
BY DEF Taken

\* The steps of a goroutine that are about something else.
LEMMA RestsElse ==
    ASSUME Shapes, NEW u \in Users, NEW l \in Locations \ {"remove"},
           pc[u] # "remove", pc' = [pc EXCEPT ![u] = l], msgQueue' = msgQueue, written' = written,
           \A v \in Users \ {u} : lg'[v] = lg[v],
           \A h \in Loggers : cpc'[h] = "remove" <=> cpc[h] = "remove"
    PROVE  \A g \in Loggers : Rests(g)
<1>1. pc'[u] # "remove" /\ \A v \in Users \ {u} : pc'[v] = pc[v]
  BY DEF Shapes, CallTypes
<1>2. \A g \in Loggers : Taken(g)' <=> Taken(g)
  BY <1>1, TakenKept
<1> QED  BY <1>2 DEF Rests

\* Draining a queue: one message is written, then taken off.
LEMMA ChangesDrain ==
    ASSUME LoggerAssumption, Shapes, Locked, Queued, NEW u \in Users, Drain(u) \/ Remove(u)
    PROVE  \A g \in Loggers : Changes(g)
<1>0. /\ lg[u] \in Loggers /\ pc \in [Users -> Locations] /\ lg \in [Users -> Loggers]
      /\ written \in [Loggers -> Seq(Message)] /\ msgQueue \in [Loggers -> Seq(Message)]
  BY DEF Shapes, CallTypes, Types
<1>1. CASE Drain(u) /\ msgQueue[lg[u]] = <<>>
  <2>1. /\ pc[u] = "drain" /\ cpc' = cpc /\ lg' = lg /\ msgQueue' = msgQueue /\ written' = written
        /\ \E l \in Locations \ {"remove"} : pc' = [pc EXCEPT ![u] = l]
    BY <1>1 DEF Drain, Goto, consumerVars, queueVars, writerVars, Locations
  <2> QED  BY <2>1, RestsElse DEF Changes
<1>2. CASE Drain(u) /\ msgQueue[lg[u]] # <<>>
  <2>1. /\ pc[u] = "drain" /\ cpc' = cpc /\ lg' = lg /\ msgQueue' = msgQueue
        /\ pc' = [pc EXCEPT ![u] = "remove"]
        /\ written' = [written EXCEPT ![lg[u]] = Append(written[lg[u]], Head(msgQueue[lg[u]]))]
    BY <1>2 DEF Drain, Goto, consumerVars, queueVars, Dispatch
  <2>2. pc'[u] = "remove" /\ lg'[u] = lg[u] /\ \A v \in Users \ {u} : pc'[v] = pc[v] /\ lg'[v] = lg[v]
    BY <1>0, <2>1
  <2>3. ~Taken(lg[u]) /\ Taken(lg[u])'
    BY <1>0, <2>1, <2>2, NotTaken DEF Taken
  <2>4. Takes(lg[u])
    BY <1>0, <1>2, <2>1, <2>3 DEF Takes
  <2>5. ASSUME NEW h \in Loggers \ {lg[u]} PROVE Rests(h)
    <3>1. Taken(h)' <=> Taken(h)
      BY <2>1, <2>2, TakenKept
    <3> QED  BY <1>0, <2>1, <3>1 DEF Rests
  <2> QED  BY <2>4, <2>5 DEF Changes
<1>3. CASE Remove(u)
  <2>1. /\ pc[u] = "remove" /\ cpc' = cpc /\ lg' = lg /\ written' = written
        /\ pc' = [pc EXCEPT ![u] = "drain"]
        /\ msgQueue' = [msgQueue EXCEPT ![lg[u]] = Tail(msgQueue[lg[u]])]
    BY <1>3 DEF Remove, Goto, consumerVars, writerVars
  <2>2. pc'[u] = "drain" /\ lg'[u] = lg[u] /\ \A v \in Users \ {u} : pc'[v] = pc[v] /\ lg'[v] = lg[v]
    BY <1>0, <2>1
  <2>3. Taken(lg[u]) /\ ~Taken(lg[u])'
    BY <1>0, <2>1, <2>2, TakenOnce DEF Taken, Consuming
  <2>4. Drops(lg[u])
    BY <1>0, <2>1, <2>3, TakenOnce DEF Drops, Queued, Consuming
  <2>5. ASSUME NEW h \in Loggers \ {lg[u]} PROVE Rests(h)
    <3>1. Taken(h)' <=> Taken(h)
      BY <2>1, <2>2, TakenKept
    <3> QED  BY <1>0, <2>1, <3>1 DEF Rests
  <2> QED  BY <2>4, <2>5 DEF Changes
<1> QED  BY <1>1, <1>2, <1>3

\* A message accepted, into the queue or by the writers.
LEMMA ChangesLog ==
    ASSUME LoggerAssumption, Shapes, Locked, Queued, NEW u \in Users, Push(u) \/ DispatchNow(u)
    PROVE  Grows(lg[u], u) /\ \A g \in Loggers \ {lg[u]} : Rests(g)
<1>0. /\ lg[u] \in Loggers /\ pc \in [Users -> Locations] /\ lg \in [Users -> Loggers] /\ Place(u)
      /\ written \in [Loggers -> Seq(Message)] /\ msgQueue \in [Loggers -> Seq(Message)]
  BY DEF Shapes, CallTypes, Types
<1>1. /\ pc' = [pc EXCEPT ![u] = "unlock"] /\ lg' = lg
      /\ UNCHANGED <<todo, lg, via, sent, writersClosed>>
      /\ pc[u] \in {"push", "dispatch"}
  BY DEF Push, DispatchNow, Goto, Dispatch, writerVars
<1>2. \A h \in Loggers : cpc'[h] = "remove" <=> cpc[h] = "remove"
  BY <1>0, BroadcastKeeps DEF Push, DispatchNow, consumerVars, Shapes
<1>3. /\ pc'[u] = "unlock" /\ \A v \in Users \ {u} : pc'[v] = pc[v] /\ lg'[v] = lg[v]
      /\ todo[u] \in Logs
  BY <1>0, <1>1 DEF Place
<1>4. \A h \in Loggers : Taken(h)' <=> Taken(h)
  BY <1>1, <1>2, <1>3, TakenKept
<1>5. CASE Push(u)
  <2>1. /\ pc[u] = "push" /\ written' = written
        /\ msgQueue' = [msgQueue EXCEPT ![lg[u]] = Append(msgQueue[lg[u]], Msg(u))]
    BY <1>5 DEF Push, writerVars
  <2>2. ~Taken(lg[u]) /\ Len(msgQueue[lg[u]]) < MaxQueueSize
    BY <2>1, NotTaken DEF Queued
  <2>3. Grows(lg[u], u)
    BY <1>0, <1>1, <1>3, <1>4, <2>1, <2>2 DEF Grows
  <2> QED  BY <1>0, <1>4, <2>1, <2>3 DEF Rests
<1>6. CASE DispatchNow(u)
  <2>1. /\ pc[u] = "dispatch" /\ msgQueue' = msgQueue
        /\ written' = [written EXCEPT ![lg[u]] = Append(written[lg[u]], Msg(u))]
    BY <1>6 DEF DispatchNow, Dispatch, queueVars
  <2>2. msgQueue[lg[u]] = <<>>
    BY <1>0, <2>1 DEF Place, Queued
  <2>3. ~Taken(lg[u])
    BY <1>0, <2>2 DEF Taken, Queued
  <2>4. Grows(lg[u], u)
    BY <1>0, <1>1, <1>3, <1>4, <2>1, <2>2, <2>3 DEF Grows
  <2> QED  BY <1>0, <1>4, <2>1, <2>4 DEF Rests
<1> QED  BY <1>5, <1>6

\* The consumer: the same, one message at a time.
LEMMA ChangesConsume ==
    ASSUME LoggerAssumption, Shapes, Locked, Queued, NEW g \in Loggers, Consume(g)
    PROVE  \A h \in Loggers : Changes(h)
<1>0. /\ cpc \in [Loggers -> {"none", "ready", "waiting", "process", "remove", "pause", "ended"}]
      /\ written \in [Loggers -> Seq(Message)] /\ msgQueue \in [Loggers -> Seq(Message)]
  BY DEF Shapes, Types
<1>1. pc' = pc /\ lg' = lg
  BY DEF Consume, Wait, Process, Processed, Pause, callVars
<1>2. ASSUME NEW h \in Loggers, cpc'[h] = "remove" <=> cpc[h] = "remove" PROVE Taken(h)' <=> Taken(h)
  BY <1>1, <1>2 DEF Taken
<1>3. CASE Wait(g) \/ Pause(g)
  <2>1. /\ msgQueue' = msgQueue /\ written' = written /\ cpc[g] # "remove"
        /\ \E c \in {"ended", "waiting", "ready", "process"} : cpc' = [cpc EXCEPT ![g] = c]
    BY <1>3 DEF Wait, Pause, queueVars, writerVars
  <2>2. \A h \in Loggers : cpc'[h] = "remove" <=> cpc[h] = "remove"
    BY <1>0, <2>1
  <2> QED  BY <1>2, <2>1, <2>2 DEF Changes, Rests
<1>4. CASE Process(g)
  <2>1. /\ cpc[g] = "process" /\ cpc' = [cpc EXCEPT ![g] = "remove"] /\ msgQueue' = msgQueue
        /\ written' = [written EXCEPT ![g] = Append(written[g], Head(msgQueue[g]))]
    BY <1>4 DEF Process, Dispatch, queueVars
  <2>2. \A v \in Users : ~(pc[v] = "remove" /\ lg[v] = g)
    BY <2>1, NotTakenTwice DEF Consuming
  <2>3. msgQueue[g] # <<>> /\ ~Taken(g) /\ Taken(g)'
    BY <1>0, <2>1, <2>2 DEF Taken, Queued
  <2>4. Takes(g)
    BY <1>0, <2>1, <2>3 DEF Takes
  <2>5. \A h \in Loggers \ {g} : Rests(h)
    BY <1>0, <1>2, <2>1 DEF Rests
  <2> QED  BY <2>4, <2>5 DEF Changes
<1>5. CASE Processed(g)
  <2>1. /\ cpc[g] = "remove" /\ written' = written
        /\ \E c \in {"ready", "pause"} : cpc' = [cpc EXCEPT ![g] = c]
        /\ msgQueue' = [msgQueue EXCEPT ![g] = Tail(msgQueue[g])]
    BY <1>5 DEF Processed, writerVars
  <2>2. \A v \in Users : ~(pc[v] = "remove" /\ lg[v] = g)
    BY <2>1, NotTakenTwice DEF Consuming
  <2>3. msgQueue[g] # <<>> /\ Taken(g) /\ ~Taken(g)'
    BY <1>0, <1>1, <2>1, <2>2 DEF Taken, Queued
  <2>4. Drops(g)
    BY <1>0, <2>1, <2>3 DEF Drops
  <2>5. \A h \in Loggers \ {g} : Rests(h)
    BY <1>0, <1>2, <2>1 DEF Rests
  <2> QED  BY <2>4, <2>5 DEF Changes
<1> QED  BY <1>3, <1>4, <1>5 DEF Consume

\* All steps of a goroutine but those that drain a queue or hand a message over.
LEMMA RestsOther ==
    ASSUME LoggerAssumption, Shapes, NEW u \in Users,
           \/ LockPkg(u) \/ LockM(u) \/ LockL(u) \/ RootFlush(u) \/ RootClose(u)
           \/ Unlock(u) \/ Install(u) \/ Leave(u)
    PROVE  \A g \in Loggers : Rests(g)
<1>0. lg[u] \in Loggers /\ lg \in [Users -> Loggers] /\ closed[lg[u]] = FALSE
  BY DEF Shapes, CallTypes, Types
<1>1. pc[u] \in {"pkg", "m", "L", "rootFlush", "rootClose", "unlock", "install", "leave"}
      /\ \E l \in Locations \ {"remove"} : pc' = [pc EXCEPT ![u] = l]
  BY <1>0 DEF LockPkg, LockM, LockL, RootFlush, RootClose, Unlock, Install, Leave, Proceed, Goto, Locations
<1>2. /\ msgQueue' = msgQueue /\ written' = written
      /\ lg' = lg \/ \E g \in Loggers : lg' = [lg EXCEPT ![u] = g]
  BY DEF LockPkg, LockM, LockL, RootFlush, RootClose, Unlock, Install, Leave, queueVars, writerVars,
         Shapes, Types, LoggerAssumption
<1>3. cpc' = cpc \/ Broadcast(lg[u])
  BY DEF LockPkg, LockM, LockL, RootFlush, RootClose, Unlock, Install, Leave, consumerVars
<1>4. \A h \in Loggers : cpc'[h] = "remove" <=> cpc[h] = "remove"
  BY <1>0, <1>3, BroadcastKeeps DEF Shapes
<1>5. \A v \in Users \ {u} : lg'[v] = lg[v]
  BY <1>0, <1>2
<1> QED  BY <1>1, <1>2, <1>4, <1>5, RestsElse

\* A call that begins moves nothing.
LEMMA RestsCall ==
    ASSUME Shapes, NEW u \in Users, NEW g \in Loggers, NEW by \in Via,
           NEW call \in {"Info", "Critical", "Flush", "UseLogger", "ReplaceLogger"},
           Call(u, call, by, g)
    PROVE  \A h \in Loggers : Rests(h)
<1>1. pc[u] = "idle" /\ \E l \in Locations \ {"remove"} : pc' = [pc EXCEPT ![u] = l]
  BY DEF Call, Goto, Locations
<1>2. msgQueue' = msgQueue /\ written' = written /\ cpc' = cpc /\ lg' = [lg EXCEPT ![u] = g]
  BY DEF Call, queueVars, writerVars, consumerVars
<1>3. \A v \in Users \ {u} : lg'[v] = lg[v]
  BY <1>2 DEF Shapes, CallTypes
<1> QED  BY <1>1, <1>2, <1>3, RestsElse

\* Every step does one of these to every logger.
LEMMA ChangesStep ==
    ASSUME LoggerAssumption, Shapes, Locked, Queued, [Next]_vars
    PROVE  \A g \in Loggers : Changes(g)
<1>1. CASE UNCHANGED vars
  BY <1>1 DEF vars, queueVars, writerVars, consumerVars, callVars, Changes, Rests, Taken
<1>2. ASSUME NEW u \in Users, Step(u) PROVE \A g \in Loggers : Changes(g)
  <2>1. CASE Drain(u) \/ Remove(u)
    BY <2>1, ChangesDrain
  <2>2. CASE Push(u) \/ DispatchNow(u)
    BY <2>2, ChangesLog DEF Changes
  <2>3. CASE \/ LockPkg(u) \/ LockM(u) \/ LockL(u) \/ RootFlush(u) \/ RootClose(u)
             \/ Unlock(u) \/ Install(u) \/ Leave(u)
    BY <2>3, RestsOther DEF Changes
  <2> QED  BY <1>2, <2>1, <2>2, <2>3 DEF Step
<1>3. ASSUME NEW u \in Users, NEW g \in Loggers, NEW by \in Via,
             NEW call \in {"Info", "Critical", "Flush", "UseLogger", "ReplaceLogger"},
             Call(u, call, by, g)
      PROVE  \A h \in Loggers : Changes(h)
  BY <1>3, RestsCall DEF Changes
<1>4. ASSUME NEW g \in Loggers, Consume(g) PROVE \A h \in Loggers : Changes(h)
  BY <1>4, ChangesConsume
<1> QED  BY <1>1, <1>2, <1>3, <1>4 DEF Next, Via

\* A sequence with one more element.
LEMMA OneMore ==
    ASSUME NEW s \in Seq(Message), NEW e \in Message
    PROVE  /\ Append(s, e) \in Seq(Message) /\ Len(Append(s, e)) = Len(s) + 1
           /\ DOMAIN Append(s, e) = 1..(Len(s) + 1) /\ DOMAIN s = 1..Len(s) /\ Len(s) \in Nat
           /\ \A i \in 1..Len(s) : Append(s, e)[i] = s[i]
           /\ Append(s, e)[Len(s) + 1] = e
           /\ Range(Append(s, e)) = Range(s) \cup {e}
<1> DEFINE t == Append(s, e)
<1>1. /\ t \in Seq(Message) /\ Len(t) = Len(s) + 1
      /\ \A i \in 1..Len(s) : t[i] = s[i]
      /\ t[Len(s) + 1] = e
  BY AppendProperties
<1>2. Len(s) \in Nat /\ DOMAIN s = 1..Len(s) /\ DOMAIN t = 1..(Len(s) + 1)
  BY <1>1, LenProperties
<1> HIDE DEF t
<1>3. Range(t) = Range(s) \cup {e}
  BY <1>1, <1>2 DEF Range
<1> QED  BY <1>1, <1>2, <1>3 DEF t

\* A queue without its first message.
LEMMA OneLess ==
    ASSUME NEW s \in Seq(Message), s # <<>>
    PROVE  /\ Tail(s) \in Seq(Message) /\ Head(s) = s[1] /\ Len(s) \in Nat /\ Len(s) >= 1
           /\ Len(Tail(s)) = Len(s) - 1
           /\ DOMAIN Tail(s) = 1..(Len(s) - 1) /\ DOMAIN s = 1..Len(s)
           /\ \A i \in 1..(Len(s) - 1) : Tail(s)[i] = s[i + 1]
           /\ Range(s) = {Head(s)} \cup Range(Tail(s))
<1> DEFINE t == Tail(s)
<1>1. /\ t \in Seq(Message) /\ Len(t) = Len(s) - 1 /\ \A i \in 1..Len(t) : t[i] = s[i + 1]
  BY HeadTailProperties
<1>2. /\ Len(s) \in Nat /\ Len(s) >= 1 /\ DOMAIN s = 1..Len(s) /\ DOMAIN t = 1..(Len(s) - 1)
      /\ Head(s) = s[1]
  BY <1>1, LenProperties, EmptySeq
<1> HIDE DEF t
<1>3. Range(s) = {s[1]} \cup Range(t)
  <2>1. \A i \in 1..Len(s) : i = 1 \/ (i - 1 \in 1..(Len(s) - 1) /\ s[i] = t[i - 1])
    BY <1>1, <1>2
  <2>2. \A x \in Range(s) : x \in {s[1]} \cup Range(t)
    BY <1>2, <2>1 DEF Range
  <2>3. s[1] \in Range(s)
    BY <1>2 DEF Range
  <2>4. \A i \in 1..(Len(s) - 1) : t[i] = s[i + 1] /\ i + 1 \in 1..Len(s)
    BY <1>1, <1>2
  <2>5. \A x \in Range(t) : x \in Range(s)
    BY <1>2, <2>4 DEF Range
  <2> QED  BY <2>2, <2>3, <2>5
<1> QED  BY <1>1, <1>2, <1>3 DEF t

\* What is put through a queue: the message written, and the one that is accepted.
LEMMA GrowsMessage ==
    ASSUME Shapes, Ordered, NEW g \in Loggers, NEW u \in Users, Grows(g, u)
    PROVE  Msg(u) \in Message /\ Unsent(u) /\ sent[u] \in 1..MaxMessages
<1>1. Unsent(u)
  BY DEF Grows, Unsent
<1> QED  BY <1>1, MsgType DEF Ordered

\* A queue is never longer than its limit, and whoever takes from it finds what it expects.
LEMMA QueuedStep ==
    ASSUME LoggerAssumption, Shapes, Locked, Queued, Ordered, [Next]_vars
    PROVE  Queued'
<1>0. /\ Types /\ CallTypes /\ MaxQueueSize \in Nat /\ MaxQueueSize > 0
      /\ msgQueue \in [Loggers -> Seq(Message)] /\ written \in [Loggers -> Seq(Message)]
      /\ \A g \in Loggers : Changes(g)
  BY ChangesStep DEF Shapes, Types, LoggerAssumption
<1>1. ASSUME NEW g \in Loggers
      PROVE  /\ Len(msgQueue'[g]) <= MaxQueueSize
             /\ Kind[g] = "sync" => msgQueue'[g] = <<>>
             /\ Taken(g)' => msgQueue'[g] # <<>> /\ Head(msgQueue'[g]) \in Range(written'[g])
  <2> DEFINE q == msgQueue[g]
             w == written[g]
  <2>1. /\ q \in Seq(Message) /\ w \in Seq(Message) /\ Len(q) \in Nat /\ Len(q) <= MaxQueueSize
        /\ Kind[g] = "sync" => q = <<>>
        /\ Taken(g) => q # <<>> /\ Head(q) \in Range(w)
    BY <1>0, LenProperties DEF Queued, QueueBounded
  <2>2. CASE Rests(g)
    BY <2>1, <2>2 DEF Rests
  <2>3. CASE Takes(g)
    <3>1. /\ q # <<>> /\ msgQueue'[g] = q /\ written'[g] = Append(w, Head(q))
      BY <2>3 DEF Takes
    <3>2. Head(q) \in Range(written'[g])
      BY <2>1, <3>1, OneMore, HeadTailProperties
    <3> QED  BY <2>1, <3>1, <3>2
  <2>4. CASE Drops(g)
    <3>1. q # <<>> /\ msgQueue'[g] = Tail(q) /\ ~Taken(g)'
      BY <2>4 DEF Drops
    <3> QED  BY <1>0, <2>1, <3>1, OneLess
  <2>5. ASSUME NEW u \in Users, Grows(g, u)
        PROVE  /\ Len(msgQueue'[g]) <= MaxQueueSize
               /\ Kind[g] = "sync" => msgQueue'[g] = <<>>
               /\ ~Taken(g)'
    <3>1. Msg(u) \in Message /\ ~Taken(g)' /\ lg[u] = g
      BY <2>5, GrowsMessage DEF Grows
    <3>2. CASE pc[u] = "push"
      <4>1. Len(q) < MaxQueueSize /\ msgQueue'[g] = Append(q, Msg(u))
        BY <2>5, <3>2 DEF Grows
      <4>2. Kind[g] # "sync"
        BY <3>1, <3>2 DEF Shapes, Place
      <4> QED  BY <1>0, <2>1, <3>1, <4>1, <4>2, OneMore
    <3>3. CASE pc[u] # "push"
      <4>1. msgQueue'[g] = <<>>
        BY <2>5, <3>3 DEF Grows
      <4> QED  BY <1>0, <3>1, <4>1
    <3> QED  BY <3>2, <3>3
  <2> QED  BY <1>0, <2>2, <2>3, <2>4, <2>5 DEF Changes
<1>2. ASSUME NEW g \in Loggers, cpc'[g] = "process" PROVE msgQueue'[g] # <<>>
  <2>1. cpc[g] = "process" \/ msgQueue[g] # <<>>
    <3>1. CASE UNCHANGED vars
      BY <1>2, <3>1 DEF vars, consumerVars
    <3>2. ASSUME NEW u \in Users, Step(u) PROVE cpc[g] = "process"
      <4>1. cpc' = cpc \/ Broadcast(lg[u])
        BY <3>2 DEF Step, LockPkg, LockM, LockL, Drain, Remove, Push, DispatchNow, RootFlush,
                    RootClose, Unlock, Install, Leave, consumerVars
      <4> QED  BY <1>0, <1>2, <4>1 DEF Broadcast, Types
    <3>3. ASSUME NEW u \in Users, NEW h \in Loggers, NEW by \in Via,
                 NEW call \in {"Info", "Critical", "Flush", "UseLogger", "ReplaceLogger"},
                 Call(u, call, by, h)
          PROVE  cpc[g] = "process"
      BY <1>2, <3>3 DEF Call, consumerVars
    <3>4. ASSUME NEW h \in Loggers, Consume(h) PROVE cpc[g] = "process" \/ msgQueue[g] # <<>>
      <4>1. \E c \in {"ended", "waiting", "process", "ready", "remove", "pause"} :
              cpc' = [cpc EXCEPT ![h] = c] /\ (c = "process" => msgQueue[h] # <<>>)
        BY <3>4 DEF Consume, Wait, Process, Processed, Pause
      <4> QED  BY <1>0, <1>2, <4>1 DEF Types
    <3> QED  BY <3>1, <3>2, <3>3, <3>4 DEF Next, Via
  <2>2. msgQueue[g] # <<>>
    BY <2>1 DEF Queued
  <2>3. ~Drops(g)
    BY <1>2 DEF Drops
  <2>4. msgQueue[g] \in Seq(Message)
    BY <1>0
  <2>5. ASSUME NEW u \in Users, Grows(g, u) PROVE msgQueue'[g] # <<>>
    <3>1. msgQueue'[g] = Append(msgQueue[g], Msg(u)) /\ Msg(u) \in Message
      BY <2>2, <2>5, GrowsMessage DEF Grows
    <3> QED  BY <2>4, <3>1, AppendProperties
  <2> QED  BY <1>0, <2>2, <2>3, <2>5 DEF Changes, Rests, Takes
<1>3. ASSUME NEW v \in Users, pc'[v] = "push" PROVE Len(msgQueue'[lg'[v]]) < MaxQueueSize
  <2>1. CASE pc[v] = "push" /\ lg'[v] = lg[v]
    <3> DEFINE g == lg[v]
    <3>1. g \in Loggers /\ Len(msgQueue[g]) < MaxQueueSize /\ msgQueue[g] \in Seq(Message)
      BY <1>0, <2>1 DEF CallTypes, Queued
    <3>2. CASE Rests(g) \/ Takes(g)
      BY <2>1, <3>1, <3>2 DEF Rests, Takes
    <3>3. CASE Drops(g)
      <4>1. msgQueue[g] # <<>> /\ msgQueue'[g] = Tail(msgQueue[g])
        BY <3>3 DEF Drops
      <4> QED  BY <1>0, <2>1, <3>1, <4>1, OneLess
    <3>4. ASSUME NEW u \in Users, Grows(g, u) PROVE Len(msgQueue'[g]) < MaxQueueSize
      <4>1. pc'[u] = "unlock" /\ lg[u] = g
        BY <1>0, <3>4 DEF Grows, CallTypes
      <4>2. pc[u] # "push"
        <5>1. L[g] = v /\ (pc[u] = "push" => L[g] = u)
          BY <2>1, <4>1 DEF Locked
        <5> QED  BY <1>3, <4>1, <5>1
      <4>3. msgQueue'[g] = <<>>
        BY <3>4, <4>2 DEF Grows
      <4> QED  BY <1>0, <4>3
    <3> QED  BY <1>0, <2>1, <3>1, <3>2, <3>3, <3>4 DEF Changes
  <2>2. CASE ~(pc[v] = "push" /\ lg'[v] = lg[v])
    <3>1. /\ lg'[v] = lg[v] /\ msgQueue' = msgQueue /\ lg[v] \in Loggers
          /\ msgQueue[lg[v]] = <<>> \/ ~(Len(msgQueue[lg[v]]) >= MaxQueueSize)
      <4> SUFFICES \E u \in Users : LockL(u) \/ Drain(u)
        <5> SUFFICES ASSUME NEW u \in Users, LockL(u) \/ Drain(u)
                     PROVE  /\ lg'[v] = lg[v] /\ msgQueue' = msgQueue /\ lg[v] \in Loggers
                            /\ msgQueue[lg[v]] = <<>> \/ ~(Len(msgQueue[lg[v]]) >= MaxQueueSize)
          OBVIOUS
        <5>1. lg' = lg /\ msgQueue' = msgQueue
          BY DEF LockL, Drain, queueVars
        <5>2. PICK l \in Locations :
                /\ pc' = [pc EXCEPT ![u] = l]
                /\ l = "push" => msgQueue[lg[u]] = <<>> \/ ~(Len(msgQueue[lg[u]]) >= MaxQueueSize)
          <6>1. CASE LockL(u)
            BY <6>1 DEF LockL, Goto, Overflows, Locations
          <6>2. CASE Drain(u)
            BY <6>2 DEF Drain, Goto, Locations
          <6> QED  BY <6>1, <6>2
        <5>3. u = v
          BY <1>0, <1>3, <2>2, <5>1, <5>2 DEF CallTypes
        <5>4. l = "push"
          BY <1>0, <1>3, <5>2, <5>3 DEF CallTypes
        <5> QED  BY <1>0, <5>1, <5>2, <5>3, <5>4 DEF CallTypes
      <4>1. pc' # pc \/ lg' # lg
        BY <1>3, <2>2
      <4>2. CASE UNCHANGED vars
        BY <4>1, <4>2 DEF vars, callVars
      <4>3. ASSUME NEW u \in Users, Step(u) PROVE LockL(u) \/ Drain(u)
        <5> SUFFICES ASSUME ~LockL(u), ~Drain(u) PROVE FALSE
          OBVIOUS
        <5>1. \E l \in Locations \ {"push"} : pc' = [pc EXCEPT ![u] = l]
          BY <1>0, <4>3 DEF Step, LockPkg, LockM, Remove, Push, DispatchNow, RootFlush,
                    RootClose, Unlock, Install, Leave, Proceed, Goto, Locations, Types, CallTypes
        <5>2. \A w \in Users \ {u} : lg'[w] = lg[w]
          BY <1>0, <4>3 DEF Step, LockPkg, LockM, Remove, Push, DispatchNow, RootFlush,
                    RootClose, Unlock, Install, Leave, CallTypes
        <5> QED  BY <1>0, <1>3, <2>2, <5>1, <5>2 DEF CallTypes
      <4>4. ASSUME NEW u \in Users, NEW h \in Loggers, NEW by \in Via,
                   NEW call \in {"Info", "Critical", "Flush", "UseLogger", "ReplaceLogger"},
                   Call(u, call, by, h)
            PROVE  FALSE
        <5>1. /\ lg' = [lg EXCEPT ![u] = h]
              /\ \E l \in Locations \ {"push"} : pc' = [pc EXCEPT ![u] = l]
          BY <4>4 DEF Call, Goto, Locations
        <5> QED  BY <1>0, <1>3, <2>2, <5>1 DEF CallTypes
      <4>5. ASSUME NEW h \in Loggers, Consume(h) PROVE FALSE
        BY <4>1, <4>5 DEF Consume, Wait, Process, Processed, Pause, callVars
      <4> QED  BY <4>2, <4>3, <4>4, <4>5, <4>1 DEF Next, Via, vars
    <3>2. Len(msgQueue[lg[v]]) \in Nat /\ Len(<<>>) = 0
      BY <1>0, <3>1, LenProperties
    <3> QED  BY <1>0, <3>1, <3>2
  <2> QED  BY <2>1, <2>2
<1> QED  BY <1>1, <1>2, <1>3 DEF Queued, QueueBounded

\* The first message of a queue is the next of the log, whether it is written or queued.
LEMMA BorderMoved ==
    ASSUME NEW w \in Seq(Message), NEW q \in Seq(Message), q # <<>>
    PROVE  Append(w, Head(q)) \o Tail(q) = w \o q
<1> DEFINE w1 == Append(w, Head(q))
           t == Tail(q)
<1>1. /\ Head(q) \in Message /\ t \in Seq(Message) /\ Len(t) = Len(q) - 1
      /\ \A i \in 1..(Len(q) - 1) : t[i] = q[i + 1]
      /\ Head(q) = q[1] /\ Len(q) \in Nat /\ Len(q) >= 1
  BY OneLess, HeadTailProperties
<1>2. /\ w1 \in Seq(Message) /\ Len(w1) = Len(w) + 1 /\ Len(w) \in Nat
      /\ \A i \in 1..Len(w) : w1[i] = w[i]
      /\ w1[Len(w) + 1] = q[1]
  BY <1>1, OneMore
<1> HIDE DEF w1, t
<1>3. /\ w1 \o t \in Seq(Message) /\ Len(w1 \o t) = Len(w1) + Len(t)
      /\ \A i \in 1..(Len(w1) + Len(t)) :
           (w1 \o t)[i] = IF i <= Len(w1) THEN w1[i] ELSE t[i - Len(w1)]
  BY <1>1, <1>2, ConcatProperties
<1>4. /\ w \o q \in Seq(Message) /\ Len(w \o q) = Len(w) + Len(q)
      /\ \A i \in 1..(Len(w) + Len(q)) :
           (w \o q)[i] = IF i <= Len(w) THEN w[i] ELSE q[i - Len(w)]
  BY ConcatProperties
<1>5. ASSUME NEW i \in 1..(Len(w) + Len(q)) PROVE (w1 \o t)[i] = (w \o q)[i]
  <2>1. CASE i <= Len(w)
    BY <1>1, <1>2, <1>3, <1>4, <2>1
  <2>2. CASE i = Len(w) + 1
    BY <1>1, <1>2, <1>3, <1>4, <2>2
  <2>3. CASE i > Len(w) + 1
    <3>1. (w1 \o t)[i] = t[i - Len(w1)] /\ (w \o q)[i] = q[i - Len(w)]
      BY <1>1, <1>2, <1>3, <1>4, <2>3
    <3>2. i - Len(w1) \in 1..(Len(q) - 1) /\ (i - Len(w1)) + 1 = i - Len(w)
      BY <1>1, <1>2, <2>3
    <3>3. t[i - Len(w1)] = q[(i - Len(w1)) + 1]
      BY <1>1, <3>2
    <3> QED  BY <3>1, <3>2, <3>3
  <2> QED  BY <1>1, <1>2, <2>1, <2>2, <2>3
<1>6. Len(w1 \o t) = Len(w \o q)
  BY <1>1, <1>2, <1>3, <1>4
<1>7. w1 \o t = w \o q
  BY <1>3, <1>4, <1>5, <1>6, SeqEqual
<1> QED  BY <1>7 DEF w1, t

\* A message accepted is the last of the log.
LEMMA EndMoved ==
    ASSUME NEW w \in Seq(Message), NEW q \in Seq(Message), NEW x \in Message
    PROVE  /\ w \o Append(q, x) = Append(w \o q, x)
           /\ w \o <<>> = w /\ w \o q \in Seq(Message)
<1>1. Append(q, x) = q \o <<x>> /\ <<x>> \in Seq(Message) /\ w \o q \in Seq(Message)
  BY AppendIsConcat, ConcatProperties
<1>2. Append(w \o q, x) = (w \o q) \o <<x>>
  BY <1>1, AppendIsConcat
<1>3. (w \o q) \o <<x>> = w \o (q \o <<x>>)
  BY <1>1, ConcatAssociative
<1> QED  BY <1>1, <1>2, <1>3, ConcatEmptySeq

\* Only a message accepted changes the log, and it does so at its end.
LEMMA LogStep ==
    ASSUME LoggerAssumption, Shapes, Locked, Queued, Ordered, [Next]_vars, NEW g \in Loggers
    PROVE  /\ Log(g) \in Seq(Message)
           /\ \/ Log(g)' = Log(g)
              \/ \E u \in Users : Grows(g, u) /\ Log(g)' = Append(Log(g), Msg(u))
<1> DEFINE w == written[g]
           q == msgQueue[g]
<1>1. Changes(g) /\ w \in Seq(Message) /\ q \in Seq(Message)
  BY ChangesStep DEF Shapes, Types
<1>2. Taken(g) => q # <<>>
  BY DEF Queued
<1>3. Log(g) \in Seq(Message)
  BY <1>1, <1>2, ConcatProperties, HeadTailProperties DEF Log
<1>4. CASE Rests(g)
  BY <1>3, <1>4 DEF Rests, Log
<1>5. CASE Takes(g)
  <2>1. /\ q # <<>> /\ Log(g) = w \o q
        /\ Log(g)' = Append(w, Head(q)) \o Tail(q)
    BY <1>5 DEF Takes, Log
  <2> QED  BY <1>1, <1>3, <2>1, BorderMoved
<1>6. CASE Drops(g)
  BY <1>3, <1>6 DEF Drops, Log
<1>7. ASSUME NEW u \in Users, Grows(g, u) PROVE Log(g)' = Append(Log(g), Msg(u))
  <2>1. Msg(u) \in Message
    BY <1>7, GrowsMessage
  <2>2. Log(g) = w \o q
    BY <1>7 DEF Grows, Log
  <2>3. CASE pc[u] = "push"
    <3>1. Log(g)' = w \o Append(q, Msg(u))
      BY <1>7, <2>3 DEF Grows, Log
    <3>2. w \o Append(q, Msg(u)) = Append(w \o q, Msg(u))
      <4> DEFINE x == Msg(u)
      <4> SUFFICES w \o Append(q, x) = Append(w \o q, x)
        OBVIOUS
      <4>1. w \in Seq(Message) /\ q \in Seq(Message) /\ x \in Message
        BY <1>1, <2>1
      <4> HIDE DEF w, q, x
      <4> QED  BY <4>1, EndMoved
    <3> QED  BY <2>2, <3>1, <3>2
  <2>4. CASE pc[u] # "push"
    <3>1. q = <<>> /\ Log(g)' = Append(w, Msg(u)) \o <<>>
      BY <1>7, <2>4 DEF Grows, Log
    <3>2. Append(w, Msg(u)) \in Seq(Message)
      BY <1>1, <2>1, OneMore
    <3>3. w \o <<>> = w /\ Append(w, Msg(u)) \o <<>> = Append(w, Msg(u))
      BY <1>1, <3>2, ConcatEmptySeq
    <3> QED  BY <2>2, <3>1, <3>3
  <2> QED  BY <2>3, <2>4
<1> QED  BY <1>1, <1>3, <1>4, <1>5, <1>6, <1>7 DEF Changes

\* A goroutine logs one message at a time: the next when the last is handed over.
Keeps(u) == sent'[u] = sent[u] /\ (Unsent(u)' => Unsent(u))
Starts(u) == ~Unsent(u) /\ sent'[u] = sent[u] + 1 /\ sent[u] < MaxMessages

\* A step leaves what a user has sent, or starts a call that sends the next.
LEMMA SentStep ==
    ASSUME LoggerAssumption, Shapes, [Next]_vars
    PROVE  \A v \in Users : Keeps(v) \/ Starts(v)
<1>0. /\ pc \in [Users -> Locations] /\ todo \in [Users -> {<<>>} \cup Called \cup Logs \cup Flushes
                                                           \cup Replaces \cup Installs]
      /\ sent \in [Users -> 0..MaxMessages] /\ MaxMessages \in Nat
      /\ \A u \in Users : Place(u)
  BY DEF Shapes, CallTypes, LoggerAssumption
<1>1. ASSUME UNCHANGED <<pc, todo, sent>> PROVE \A v \in Users : Keeps(v)
  BY <1>1 DEF Keeps, Unsent
<1>2. CASE UNCHANGED vars
  BY <1>1, <1>2 DEF vars, callVars
<1>3. ASSUME NEW g \in Loggers, Consume(g) PROVE \A v \in Users : Keeps(v)
  BY <1>1, <1>3 DEF Consume, Wait, Process, Processed, Pause, callVars
<1>4. ASSUME NEW u \in Users, Step(u) PROVE \A v \in Users : Keeps(v)
  <2>1. sent' = sent /\ \A v \in Users \ {u} : pc'[v] = pc[v] /\ todo'[v] = todo[v]
    BY <1>0, <1>4 DEF Step, LockPkg, LockM, LockL, Drain, Remove, Push, DispatchNow, RootFlush,
                      RootClose, Unlock, Install, Leave, Proceed, Goto
  <2>2. Unsent(u)' => Unsent(u)
    <3>1. CASE LockPkg(u)
      <4> DEFINE list == Parts(part(u), Current)
      <4>1. todo[u] \in Called /\ pc[u] = "pkg" /\ Current \in Loggers
        BY <1>0, <3>1 DEF LockPkg, Place, Shapes, Types
      <4>2. part(u) \in {"Info", "Critical", "Flush", "UseLogger", "ReplaceLogger"} /\ todo[u] = <<part(u)>>
        BY <4>1, PartLists DEF part
      <4>3. part(u) \in {"Info", "Critical"} <=> list \in Logs
        BY <4>1, <4>2, PartsOf DEF Shapes
      <4>4. todo'[u] = list /\ pc'[u] # "pkg"
        BY <1>0, <3>1 DEF LockPkg, Goto
      <4> HIDE DEF list
      <4> QED  BY <4>1, <4>2, <4>3, <4>4 DEF Unsent
    <3>2. CASE LockM(u) \/ LockL(u) \/ Drain(u) \/ Remove(u)
      <4>1. /\ todo' = todo /\ pc[u] \in {"m", "L", "drain", "remove"}
            /\ \E l \in Locations \ {"pkg"} : pc' = [pc EXCEPT ![u] = l]
        BY <1>0, <3>2 DEF LockM, LockL, Drain, Remove, Goto, Locations
      <4> QED  BY <1>0, <4>1 DEF Unsent
    <3>3. CASE Push(u) \/ DispatchNow(u) \/ RootFlush(u) \/ RootClose(u) \/ Leave(u)
      <4>1. \E l \in {"unlock", "rootClose", "idle"} : pc' = [pc EXCEPT ![u] = l]
        BY <3>3 DEF Push, DispatchNow, RootFlush, RootClose, Leave, Goto
      <4> QED  BY <1>0, <4>1 DEF Unsent
    <3>4. CASE Unlock(u) \/ Install(u)
      <4>1. /\ todo' = [todo EXCEPT ![u] = Tail(todo[u])] /\ pc[u] \in {"unlock", "install"}
            /\ \E l \in {"leave", "install", "m"} : pc' = [pc EXCEPT ![u] = l]
        BY <3>4 DEF Unlock, Install, Proceed, Goto
      <4>2. todo[u] \in Logs \cup Flushes \cup Replaces \cup Installs
        BY <1>0, <4>1 DEF Place
      <4>3. Tail(todo[u]) \notin Logs
        BY <4>2, PartsLeft, PartListsDiffer
      <4> QED  BY <1>0, <4>1, <4>3 DEF Unsent
    <3> QED  BY <1>4, <3>1, <3>2, <3>3, <3>4 DEF Step
  <2> QED  BY <2>1, <2>2 DEF Keeps, Unsent
<1>5. ASSUME NEW u \in Users, NEW g \in Loggers, NEW by \in Via,
             NEW call \in {"Info", "Critical", "Flush", "UseLogger", "ReplaceLogger"},
             Call(u, call, by, g)
      PROVE  \A v \in Users : Keeps(v) \/ Starts(v)
  <2> DEFINE list == IF by = "package" THEN <<call>> ELSE Parts(call, g)
  <2>1. /\ todo' = [todo EXCEPT ![u] = list] /\ pc[u] = "idle"
        /\ pc' = [pc EXCEPT ![u] = IF by = "package" THEN "pkg" ELSE "m"]
    BY <1>5 DEF Call, Goto
  <2>2. /\ call \in {"Info", "Critical"} => sent[u] < MaxMessages /\ sent' = [sent EXCEPT ![u] = sent[u] + 1]
        /\ call \notin {"Info", "Critical"} => sent' = sent
    BY <1>5 DEF Call
  <2>3. ASSUME NEW v \in Users \ {u} PROVE Keeps(v)
    BY <1>0, <2>1, <2>2 DEF Keeps, Unsent
  <2>4. CASE call \in {"Info", "Critical"}
    BY <1>0, <2>1, <2>2, <2>3, <2>4 DEF Starts, Unsent
  <2>5. CASE call \notin {"Info", "Critical"}
    <3>1. CASE by = "package"
      <4>1. todo'[u] = <<call>> /\ pc'[u] = "pkg" /\ <<call>> \notin {<<"Info">>, <<"Critical">>}
        BY <1>0, <2>1, <2>5, <3>1
      <4> QED  BY <1>0, <2>2, <2>3, <2>5, <4>1 DEF Keeps, Unsent
    <3>2. CASE by # "package"
      <4>1. Parts(call, g) \notin Logs
        BY <2>5, PartsOf DEF Shapes
      <4>2. todo'[u] \notin Logs /\ pc'[u] = "m"
        BY <1>0, <2>1, <3>2, <4>1
      <4> QED  BY <1>0, <2>2, <2>3, <2>5, <4>2 DEF Keeps, Unsent
    <3> QED  BY <3>1, <3>2
  <2> QED  BY <2>4, <2>5
<1> QED  BY <1>2, <1>3, <1>4, <1>5 DEF Next, Via

\* Numbers of what is handed over only grow.
LEMMA HandedOverGrows ==
    ASSUME LoggerAssumption, Shapes, Ordered, [Next]_vars, NEW v \in Users
    PROVE  /\ HandedOver(v) \in Int /\ HandedOver(v)' \in Int /\ HandedOver(v) <= HandedOver(v)'
           /\ Unsent(v)' => sent'[v] \in 1..MaxMessages
<1>1. Keeps(v) \/ Starts(v)
  BY SentStep
<1>2. sent[v] \in Nat /\ sent[v] <= MaxMessages /\ MaxMessages \in Nat
  BY DEF Shapes, CallTypes, LoggerAssumption
<1>3. Unsent(v) => sent[v] \in 1..MaxMessages
  BY DEF Ordered
<1>4. HandedOver(v)' = IF Unsent(v)' THEN sent'[v] - 1 ELSE sent'[v]
  BY DEF HandedOver
<1>5. HandedOver(v) = IF Unsent(v) THEN sent[v] - 1 ELSE sent[v]
  BY DEF HandedOver
<1> QED  BY <1>1, <1>2, <1>3, <1>4, <1>5 DEF Keeps, Starts

\* A message numbered after all its goroutine's others is put at the end of a log.
LEMMA StillInOrder ==
    ASSUME NEW s \in Seq(Message), NEW x \in Message, InOrder(s),
           \A i \in DOMAIN s : s[i].user = x.user => s[i].n < x.n
    PROVE  InOrder(Append(s, x))
<1> DEFINE t == Append(s, x)
<1>1. /\ DOMAIN t = 1..(Len(s) + 1) /\ DOMAIN s = 1..Len(s) /\ Len(s) \in Nat
      /\ \A i \in 1..Len(s) : t[i] = s[i]
      /\ t[Len(s) + 1] = x
  BY OneMore
<1> HIDE DEF t
<1>2. ASSUME NEW i \in DOMAIN t, NEW j \in DOMAIN t, i < j, t[i].user = t[j].user
      PROVE  t[i].n < t[j].n
  <2>1. CASE j <= Len(s)
    <3>1. i \in DOMAIN s /\ j \in DOMAIN s /\ t[i] = s[i] /\ t[j] = s[j]
      BY <1>1, <1>2, <2>1
    <3> QED  BY <1>2, <3>1 DEF InOrder
  <2>2. CASE j = Len(s) + 1
    <3>1. i \in DOMAIN s /\ t[i] = s[i] /\ t[j] = x
      BY <1>1, <1>2, <2>2
    <3> QED  BY <1>2, <3>1
  <2> QED  BY <1>1, <2>1, <2>2
<1>3. InOrder(t)
  BY <1>2 DEF InOrder
<1> QED  BY <1>3 DEF t

\* A log has each goroutine's messages in order, none from the future.
LEMMA OrderedStep ==
    ASSUME LoggerAssumption, Shapes, Locked, Queued, Ordered, [Next]_vars
    PROVE  Ordered'
<1>1. \A u \in Users : Unsent(u)' => sent'[u] \in 1..MaxMessages
  BY HandedOverGrows
<1>2. ASSUME NEW g \in Loggers
      PROVE  /\ InOrder(Log(g)')
             /\ \A i \in DOMAIN Log(g)' : \E w \in Users :
                  Log(g)'[i].user = w /\ Log(g)'[i].n <= HandedOver(w)'
  <2> DEFINE s == Log(g)
  <2>1. /\ s \in Seq(Message) /\ InOrder(s)
        /\ \A i \in DOMAIN s : s[i].n <= HandedOver(s[i].user)
    BY LogStep DEF Ordered
  <2>2. ASSUME NEW i \in DOMAIN s
        PROVE  s[i] \in Message /\ s[i].user \in Users /\ s[i].n \in Nat
               /\ \A w \in Users : s[i].user = w => s[i].n <= HandedOver(w)
               /\ \E x \in Users : s[i].user = x /\ s[i].n <= HandedOver(x)'
    <3>1. s[i] \in Message
      BY <2>1, ElementOfSeq, LenProperties
    <3>2. s[i].user \in Users /\ s[i].n \in Nat
      BY <3>1 DEF Message, LoggerAssumption
    <3>3. PICK v \in Users : s[i].user = v /\ s[i].n <= HandedOver(v)
      BY <2>1, <3>2
    <3>4. s[i].n <= HandedOver(v)'
      <4>1. HandedOver(v) \in Int /\ HandedOver(v)' \in Int /\ HandedOver(v) <= HandedOver(v)'
        BY HandedOverGrows
      <4> QED  BY <3>2, <3>3, <4>1
    <3> QED  BY <3>1, <3>2, <3>3, <3>4
  <2>3. CASE Log(g)' = s
    BY <2>1, <2>2, <2>3
  <2>4. ASSUME NEW u \in Users, Grows(g, u), Log(g)' = Append(s, Msg(u))
        PROVE  /\ InOrder(Log(g)')
               /\ \A i \in DOMAIN Log(g)' : \E w \in Users :
                    Log(g)'[i].user = w /\ Log(g)'[i].n <= HandedOver(w)'
    <3> DEFINE x == Msg(u)
    <3>1. /\ x \in Message /\ x.user = u /\ x.n = sent[u] /\ sent[u] \in Nat
          /\ HandedOver(u) = sent[u] - 1
      BY <2>4, GrowsMessage DEF Msg, HandedOver
    <3>2. HandedOver(u)' = sent[u]
      <4>1. pc'[u] = "unlock" /\ sent' = sent
        BY <2>4 DEF Grows, Shapes, CallTypes
      <4> QED  BY <4>1 DEF HandedOver, Unsent
    <3> HIDE DEF x, s
    <3>3. \A i \in DOMAIN s : s[i].user = x.user => s[i].n < x.n
      BY <2>1, <2>2, <3>1
    <3>4. InOrder(Append(s, x))
      BY <2>1, <3>1, <3>3, StillInOrder
    <3>5. /\ DOMAIN Append(s, x) = 1..(Len(s) + 1) /\ DOMAIN s = 1..Len(s) /\ Len(s) \in Nat
          /\ \A i \in 1..Len(s) : Append(s, x)[i] = s[i]
          /\ Append(s, x)[Len(s) + 1] = x
      BY <2>1, <3>1, OneMore
    <3>6. ASSUME NEW i \in DOMAIN Append(s, x)
          PROVE  \E w \in Users : Append(s, x)[i].user = w /\ Append(s, x)[i].n <= HandedOver(w)'
      <4>1. CASE i = Len(s) + 1
        BY <3>1, <3>2, <3>5, <4>1
      <4>2. CASE i # Len(s) + 1
        <5>1. i \in DOMAIN s /\ Append(s, x)[i] = s[i]
          BY <3>5, <4>2
        <5> QED  BY <2>2, <5>1
      <4> QED  BY <4>1, <4>2
    <3> QED  BY <2>4, <3>4, <3>6 DEF x
  <2> QED  BY <2>3, <2>4, LogStep
<1>3. ASSUME NEW g \in Loggers, NEW i \in DOMAIN Log(g)'
      PROVE  (Log(g)[i].n <= HandedOver(Log(g)[i].user))'
  <2>1. PICK w \in Users : Log(g)'[i].user = w /\ Log(g)'[i].n <= HandedOver(w)'
    BY <1>2
  <2> QED  BY <2>1 DEF HandedOver, Unsent
<1> QED  BY <1>1, <1>2, <1>3 DEF Ordered, InOrder

\* What is out of the buffers, message by message.
LEMMA OutOf ==
    ASSUME NEW s \in Seq(Message), NEW k \in Nat, k <= Len(s)
    PROVE  Range(SubSeq(s, 1, k)) = {s[i] : i \in 1..k}
<1> DEFINE t == SubSeq(s, 1, k)
<1>1. \A i \in 1..k : s[i] \in Message
  <2>1. Len(s) \in Nat
    BY LenProperties
  <2>2. \A i \in 1..Len(s) : s[i] \in Message
    BY ElementOfSeq
  <2> QED  BY <2>1, <2>2
<1>2. /\ t \in Seq(Message) /\ Len(t) = IF 1 <= k THEN k - 1 + 1 ELSE 0
      /\ \A i \in 1..(k - 1 + 1) : t[i] = s[1 + i - 1]
  BY <1>1, SubSeqProperties
<1> HIDE DEF t
<1>3. DOMAIN t = 1..k /\ \A i \in 1..k : t[i] = s[i]
  <2>1. DOMAIN t = 1..Len(t)
    BY <1>2, LenProperties
  <2>2. Len(t) = k /\ \A i \in 1..k : 1 + i - 1 = i
    BY <1>2
  <2> QED  BY <1>2, <2>1, <2>2
<1>4. Range(t) = {s[i] : i \in 1..k}
  BY <1>3 DEF Range
<1> QED  BY <1>4 DEF t

\* What is written stays so, and what is accepted is not lost.
LEMMA NothingLost ==
    ASSUME LoggerAssumption, Shapes, Locked, Queued, Ordered, [Next]_vars, NEW g \in Loggers
    PROVE  /\ Len(written[g]) \in Nat /\ Len(written'[g]) \in Nat
           /\ Len(written[g]) <= Len(written'[g])
           /\ \A i \in 1..Len(written[g]) : written'[g][i] = written[g][i]
           /\ Range(written[g]) \subseteq Range(written'[g])
           /\ Accepted(g) \subseteq Accepted(g)'
<1> DEFINE w == written[g]
           q == msgQueue[g]
<1>1. /\ Changes(g) /\ w \in Seq(Message) /\ q \in Seq(Message)
      /\ Len(w) \in Nat /\ Len(q) \in Nat
      /\ Accepted(g) = Range(w) \cup Range(q)
      /\ Accepted(g)' = Range(written'[g]) \cup Range(msgQueue'[g])
  BY ChangesStep, LenProperties DEF Shapes, Types, Accepted
<1> HIDE DEF w, q
<1>2. CASE Rests(g)
  BY <1>1, <1>2 DEF Rests, w, q
<1>3. CASE Takes(g)
  <2>1. written'[g] = Append(w, Head(q)) /\ msgQueue'[g] = q /\ Head(q) \in Message
    BY <1>1, <1>3, HeadTailProperties DEF Takes, w, q
  <2> QED  BY <1>1, <2>1, OneMore DEF w
<1>4. CASE Drops(g)
  <2>1. /\ written'[g] = w /\ msgQueue'[g] = Tail(q) /\ q # <<>>
        /\ Head(q) \in Range(w)
    BY <1>4 DEF Drops, Queued, w, q
  <2>2. Range(q) = {Head(q)} \cup Range(Tail(q))
    BY <1>1, <2>1, OneLess
  <2> QED  BY <1>1, <2>1, <2>2 DEF w
<1>5. ASSUME NEW u \in Users, Grows(g, u)
      PROVE  /\ Len(written'[g]) \in Nat /\ Len(w) <= Len(written'[g])
             /\ \A i \in 1..Len(w) : written'[g][i] = w[i]
             /\ Range(w) \subseteq Range(written'[g])
             /\ Range(q) \subseteq Range(msgQueue'[g])
  <2> DEFINE x == Msg(u)
  <2>1. x \in Message
    BY <1>5, GrowsMessage
  <2>2. \/ written'[g] = w /\ msgQueue'[g] = Append(q, x)
        \/ written'[g] = Append(w, x) /\ msgQueue'[g] = q
    BY <1>5 DEF Grows, w, q
  <2> HIDE DEF x
  <2>3. /\ Len(Append(w, x)) = Len(w) + 1 /\ Len(Append(w, x)) \in Nat
        /\ \A i \in 1..Len(w) : Append(w, x)[i] = w[i]
        /\ Range(w) \subseteq Range(Append(w, x)) /\ Range(q) \subseteq Range(Append(q, x))
    BY <1>1, <2>1, OneMore
  <2>4. CASE written'[g] = w /\ msgQueue'[g] = Append(q, x)
    BY <1>1, <2>3, <2>4
  <2>5. CASE written'[g] = Append(w, x) /\ msgQueue'[g] = q
    BY <1>1, <2>3, <2>5
  <2> QED  BY <2>2, <2>4, <2>5
<1> QED  BY <1>1, <1>2, <1>3, <1>4, <1>5 DEF Changes, w

\* Buffers are emptied up to what is written at that moment.
LEMMA FlushedStep ==
    ASSUME LoggerAssumption, Shapes, [Next]_vars, NEW g \in Loggers
    PROVE  \/ flushed'[g] = flushed[g]
           \/ flushed'[g] = Len(written[g]) /\ written'[g] = written[g]
<1>0. flushed \in [Loggers -> Nat] /\ lg \in [Users -> Loggers]
  BY DEF Shapes, Types, CallTypes
<1>1. ASSUME NEW u \in Users, RootFlush(u)
      PROVE  \/ flushed'[g] = flushed[g]
             \/ flushed'[g] = Len(written[g]) /\ written'[g] = written[g]
  BY <1>0, <1>1 DEF RootFlush
<1>2. ASSUME NEW u \in Users, Step(u), ~RootFlush(u) PROVE flushed' = flushed
  BY <1>2 DEF Step, LockPkg, LockM, LockL, Drain, Remove, Push, DispatchNow, RootClose, Unlock,
              Install, Leave, writerVars, Dispatch
<1>3. ASSUME NEW u \in Users, NEW h \in Loggers, NEW by \in Via,
             NEW call \in {"Info", "Critical", "Flush", "UseLogger", "ReplaceLogger"},
             Call(u, call, by, h)
      PROVE  flushed' = flushed
  BY <1>3 DEF Call, writerVars
<1>4. ASSUME NEW h \in Loggers, Consume(h) PROVE flushed' = flushed
  BY <1>4 DEF Consume, Wait, Process, Processed, Pause, writerVars, Dispatch
<1>5. UNCHANGED vars => flushed' = flushed
  BY DEF vars, writerVars
<1> QED  BY <1>1, <1>2, <1>3, <1>4, <1>5 DEF Next, Via

\* What is out of the buffers stays out.
LEMMA OutGrows ==
    ASSUME LoggerAssumption, Shapes, Locked, Queued, Ordered, Flushing, [Next]_vars,
           NEW g \in Loggers
    PROVE  flushed'[g] <= Len(written'[g]) /\ Out(g) \subseteq Out(g)'
<1> DEFINE w == written[g]
           k == flushed[g]
           x == written'[g]
           l == flushed'[g]
<1>1. /\ w \in Seq(Message) /\ k \in Nat /\ k <= Len(w)
      /\ x \in Seq(Message) /\ l \in Nat
      /\ Out(g) = Range(SubSeq(w, 1, k)) /\ Out(g)' = Range(SubSeq(x, 1, l))
  BY ShapesStep DEF Shapes, Types, Flushing, Out
<1>2. /\ Len(w) \in Nat /\ Len(x) \in Nat /\ Len(w) <= Len(x)
      /\ \A i \in 1..Len(w) : x[i] = w[i]
  BY NothingLost
<1>3. l = k \/ (l = Len(w) /\ x = w)
  BY FlushedStep
<1> HIDE DEF w, k, x, l
<1>4. k <= l /\ l <= Len(x)
  BY <1>1, <1>2, <1>3
<1>5. Out(g) = {w[i] : i \in 1..k} /\ Out(g)' = {x[i] : i \in 1..l}
  BY <1>1, <1>4, OutOf
<1>6. \A i \in 1..k : i \in 1..l /\ x[i] = w[i]
  BY <1>1, <1>2, <1>4
<1> QED  BY <1>4, <1>5, <1>6 DEF l, x

\* One goroutine's flush.
FlushAt(v) ==
    /\ pc[v] \in {"L", "drain", "remove"} => before[v] \subseteq Accepted(lg[v])
    /\ pc[v] = "rootFlush" => before[v] \subseteq Range(written[lg[v]])
    /\ pc[v] = "unlock" /\ part(v) \in {"flush", "criticalFlush"} => before[v] \subseteq Out(lg[v])

\* Whatever the others do meanwhile.
LEMMA FlushUndisturbed ==
    ASSUME LoggerAssumption, Shapes, Locked, Queued, Ordered, Flushing, [Next]_vars,
           NEW v \in Users, pc'[v] = pc[v], todo'[v] = todo[v], lg'[v] = lg[v],
           before'[v] = before[v], FlushAt(v)
    PROVE  FlushAt(v)'
<1>1. lg[v] \in Loggers
  BY DEF Shapes, CallTypes
<1>2. PICK g \in Loggers : lg[v] = g /\ lg'[v] = g
  BY <1>1
<1>3. /\ Accepted(g) \subseteq Accepted(g)' /\ Range(written[g]) \subseteq Range(written'[g])
      /\ Out(g) \subseteq Out(g)'
  BY NothingLost, OutGrows
<1>4. /\ pc[v] \in {"L", "drain", "remove"} => before'[v] \subseteq Accepted(g)'
      /\ pc[v] = "rootFlush" => before'[v] \subseteq Range(written'[g])
      /\ pc[v] = "unlock" /\ Head(todo[v]) \in {"flush", "criticalFlush"} => before'[v] \subseteq Out(g)'
  BY <1>2, <1>3 DEF FlushAt, part
<1> QED  BY <1>2, <1>4 DEF FlushAt, part, Accepted, Out

\* A flush goes on: through its logger's queue, then its buffers.
LEMMA FlushMoves ==
    ASSUME LoggerAssumption, Shapes, Locked, Queued, Ordered, Flushing, [Next]_vars,
           NEW v \in Users, Step(v), FlushAt(v)
    PROVE  FlushAt(v)'
<1> DEFINE g == lg[v]
<1>0. /\ pc \in [Users -> Locations] /\ before \in [Users -> SUBSET Message] /\ Place(v)
      /\ lg[v] \in Loggers /\ closed[lg[v]] = FALSE
      /\ msgQueue \in [Loggers -> Seq(Message)] /\ written \in [Loggers -> Seq(Message)]
      /\ flushed \in [Loggers -> Nat]
  BY DEF Shapes, CallTypes, Types
<1>1. CASE LockPkg(v) \/ Unlock(v) \/ Install(v) \/ Leave(v)
  <2>1. \E l \in {"install", "m", "leave", "idle"} : pc' = [pc EXCEPT ![v] = l]
    BY <1>1 DEF LockPkg, Unlock, Install, Leave, Proceed, Goto
  <2> QED  BY <1>0, <2>1 DEF FlushAt
<1>2. CASE LockM(v)
  <2>1. /\ lg' = lg /\ msgQueue' = msgQueue /\ written' = written
        /\ before'[v] = Accepted(lg[v])
        /\ \/ pc'[v] = "L"
           \/ pc'[v] \in {"dispatch", "rootClose"}
           \/ pc'[v] = "rootFlush" /\ Kind[lg[v]] = "sync"
    BY <1>0, <1>2 DEF LockM, Goto, queueVars, writerVars
  <2>2. before'[v] = Range(written[lg[v]]) \cup Range(msgQueue[lg[v]])
    BY <2>1 DEF Accepted
  <2>3. Kind[lg[v]] = "sync" => Range(msgQueue[lg[v]]) = {}
    <3>1. Range(<<>>) = {}
      BY DEF Range
    <3> QED  BY <1>0, <3>1 DEF Queued
  <2> QED  BY <2>1, <2>2, <2>3 DEF FlushAt, Accepted
<1>3. CASE LockL(v) \/ Remove(v) \/ (Drain(v) /\ msgQueue[lg[v]] # <<>>)
  <2>1. /\ lg' = lg /\ before' = before /\ pc[v] \in {"L", "drain", "remove"}
        /\ \E l \in {"push", "L", "drain", "remove"} : pc' = [pc EXCEPT ![v] = l]
    BY <1>3 DEF LockL, Remove, Drain, Goto
  <2>2. Accepted(lg[v]) \subseteq Accepted(g)'
    <3>1. PICK h \in Loggers : lg[v] = h
      BY <1>0
    <3>2. Accepted(h) \subseteq Accepted(h)'
      BY NothingLost
    <3> QED  BY <2>1, <3>1, <3>2 DEF Accepted
  <2> QED  BY <1>0, <2>1, <2>2 DEF FlushAt
<1>4. CASE Drain(v) /\ msgQueue[lg[v]] = <<>>
  <2>1. /\ lg' = lg /\ before' = before /\ pc[v] = "drain" /\ written' = written
        /\ \E l \in {"push", "rootFlush"} : pc' = [pc EXCEPT ![v] = l]
    BY <1>4 DEF Drain, Goto, writerVars
  <2>2. Range(msgQueue[lg[v]]) = {}
    BY <1>4 DEF Range
  <2>3. before[v] \subseteq Range(written[lg[v]])
    BY <2>1, <2>2 DEF FlushAt, Accepted
  <2> QED  BY <1>0, <2>1, <2>3 DEF FlushAt
<1>5. CASE Push(v) \/ DispatchNow(v) \/ RootClose(v)
  <2>1. /\ todo' = todo /\ pc' = [pc EXCEPT ![v] = "unlock"]
        /\ todo[v] \in Logs \/ todo[v] = <<"close", "install">>
    BY <1>0, <1>5 DEF Push, DispatchNow, RootClose, Goto, Place
  <2>2. Head(todo[v]) \notin {"flush", "criticalFlush"}
    BY <2>1, PartLists
  <2> QED  BY <1>0, <2>1, <2>2 DEF FlushAt, part
<1>6. CASE RootFlush(v)
  <2>1. /\ lg' = lg /\ before' = before /\ pc[v] = "rootFlush" /\ written' = written
        /\ flushed' = [flushed EXCEPT ![lg[v]] = Len(written[lg[v]])]
        /\ \E l \in {"rootClose", "unlock"} : pc' = [pc EXCEPT ![v] = l]
    BY <1>6 DEF RootFlush, Goto
  <2>2. before[v] \subseteq Range(written[lg[v]])
    BY <2>1 DEF FlushAt
  <2>3. SubSeq(written[lg[v]], 1, Len(written[lg[v]])) = written[lg[v]]
    BY <1>0, SubSeqFull
  <2>4. Out(g)' = Range(written[lg[v]])
    BY <1>0, <2>1, <2>3 DEF Out
  <2> QED  BY <1>0, <2>1, <2>2, <2>4 DEF FlushAt, Out
<1> QED  BY <1>1, <1>2, <1>3, <1>4, <1>5, <1>6 DEF Step

\* Flush comes back when what was accepted before is out.
LEMMA FlushingStep ==
    ASSUME LoggerAssumption, Shapes, Locked, Queued, Ordered, Flushing, [Next]_vars
    PROVE  Flushing'
<1>0. /\ pc \in [Users -> Locations] /\ todo \in [Users -> {<<>>} \cup Called \cup Logs
                                           \cup Flushes \cup Replaces \cup Installs]
      /\ lg \in [Users -> Loggers] /\ before \in [Users -> SUBSET Message]
  BY DEF Shapes, CallTypes
<1>1. \A v \in Users : FlushAt(v)
  BY DEF Flushing, FlushAt, FlushDelivers, Out
<1>2. \A v \in Users : UNCHANGED <<pc[v], todo[v], lg[v], before[v]>> => FlushAt(v)'
  BY <1>1, FlushUndisturbed
<1>3. UNCHANGED <<pc, todo, lg, before>> => \A v \in Users : FlushAt(v)'
  BY <1>2
<1>4. ASSUME NEW u \in Users, Step(u) PROVE \A v \in Users : FlushAt(v)'
  <2>1. \A v \in Users \ {u} : UNCHANGED <<pc[v], todo[v], lg[v], before[v]>>
    BY <1>0, <1>4 DEF Step, LockPkg, LockM, LockL, Drain, Remove, Push, DispatchNow, RootFlush,
                      RootClose, Unlock, Install, Leave, Proceed, Goto
  <2> QED  BY <1>1, <1>2, <1>4, <2>1, FlushMoves
<1>5. ASSUME NEW u \in Users, NEW g \in Loggers, NEW by \in Via,
             NEW call \in {"Info", "Critical", "Flush", "UseLogger", "ReplaceLogger"},
             Call(u, call, by, g)
      PROVE  \A v \in Users : FlushAt(v)'
  <2>1. \A v \in Users \ {u} : UNCHANGED <<pc[v], todo[v], lg[v], before[v]>>
    BY <1>0, <1>5 DEF Call, Goto
  <2>2. pc'[u] \in {"pkg", "m"}
    BY <1>0, <1>5 DEF Call, Goto
  <2> QED  BY <1>2, <2>1, <2>2 DEF FlushAt
<1>6. ASSUME NEW g \in Loggers, Consume(g) PROVE \A v \in Users : FlushAt(v)'
  <2>1. UNCHANGED <<pc, todo, lg, before>>
    BY <1>6 DEF Consume, Wait, Process, Processed, Pause, callVars
  <2> QED  BY <1>3, <2>1
<1>7. \A v \in Users : FlushAt(v)'
  <2>1. UNCHANGED vars => UNCHANGED <<pc, todo, lg, before>>
    BY DEF vars, callVars
  <2> QED  BY <2>1, <1>3, <1>4, <1>5, <1>6 DEF Next, Via
<1>8. \A g \in Loggers : flushed'[g] <= Len(written'[g])
  BY OutGrows
<1> QED  BY <1>7, <1>8 DEF Flushing, FlushAt, FlushDelivers, Out

Inside == Locations \ {"idle", "pkg"}

\* Replacing is for the package functions only.
LEMMA ReplacersHold ==
    ASSUME Shapes, NEW u \in Users, pc[u] \notin {"idle", "pkg"}, todo[u] \in Installs \cup Replaces
    PROVE  Holds(u) /\ Installing(u)
<1>1. via[u] # "logger"
  BY PartListsDiffer DEF Shapes, Place
<1> QED  BY <1>1 DEF Shapes, CallTypes, Via, Holds, Installing

\* Steps within a part.
LEMMA PackageQuiet ==
    ASSUME Shapes, Package, NEW u \in Users, NEW l \in Inside,
           pc' = [pc EXCEPT ![u] = l], pc[u] \in Inside \ {"unlock", "install"},
           UNCHANGED <<Current, pkgMutex, writersClosed, todo, lg, via, new>>
    PROVE  Package'
<1>1. /\ pc'[u] = l /\ \A v \in Users \ {u} : pc'[v] = pc[v]
      /\ l \notin {"idle", "pkg"}
  BY DEF Shapes, CallTypes, Inside
<1>2. \A v \in Users : (Holds(v)' <=> Holds(v)) /\ (Installing(v)' <=> Installing(v))
  BY <1>1 DEF Holds, Installing, Inside
<1>3. \A v \in Users : Closing(v) => Closing(v)'
  BY <1>1 DEF Closing
<1> QED  BY <1>2, <1>3 DEF Package

\* Taking the mutex.
LEMMA PackageLocked ==
    ASSUME LoggerAssumption, Shapes, Package, NEW u \in Users, LockPkg(u)
    PROVE  Package'
<1> DEFINE list == Parts(part(u), Current)
<1>1. /\ pc[u] = "pkg" /\ pkgMutex = Nil /\ pkgMutex' = u /\ lg' = [lg EXCEPT ![u] = Current]
      /\ todo' = [todo EXCEPT ![u] = list]
      /\ \E l \in {"install", "m"} : pc' = [pc EXCEPT ![u] = l]
      /\ UNCHANGED <<Current, writersClosed, via, new>>
  BY DEF LockPkg, Goto, writerVars
<1>2. Current \in Loggers /\ todo[u] \in Called /\ via[u] = "package"
  BY <1>1 DEF Shapes, Types, Place
<1>3. part(u) \in {"Info", "Critical", "Flush", "UseLogger", "ReplaceLogger"} /\ todo[u] = <<part(u)>>
  BY <1>2, PartLists DEF part
<1>4. part(u) \in {"Info", "Critical", "Flush"} => list \notin Installs \cup Replaces
  BY <1>2, <1>3, PartsOf, PartListsDiffer DEF Shapes
<1> HIDE DEF list
<1>5. /\ pc'[u] \in {"install", "m"} /\ todo'[u] = list /\ lg'[u] = Current
      /\ \A v \in Users \ {u} : pc'[v] = pc[v] /\ todo'[v] = todo[v] /\ lg'[v] = lg[v]
  BY <1>1 DEF Shapes, CallTypes
<1>6. \A v \in Users : ~Holds(v)
  BY <1>1 DEF Package, LoggerAssumption
<1>7. ~writersClosed[Current]
  BY <1>6 DEF Package
<1>8. \A v \in Users : Holds(v)' <=> v = u
  BY <1>1, <1>2, <1>5, <1>6 DEF Holds
<1>9. \A v \in Users : Installing(v)' => Installing(v)
  BY <1>1, <1>3, <1>4, <1>5 DEF Installing
<1> QED  BY <1>1, <1>5, <1>7, <1>8, <1>9 DEF Package

\* Closing what is installed, by whoever is to install the next.
LEMMA PackageCloses ==
    ASSUME LoggerAssumption, Shapes, Package, NEW u \in Users, RootClose(u)
    PROVE  Package' /\ lg[u] = Current
<1>1. /\ pc[u] = "rootClose" /\ pc' = [pc EXCEPT ![u] = "unlock"]
      /\ writersClosed' = [writersClosed EXCEPT ![lg[u]] = TRUE]
      /\ UNCHANGED <<Current, pkgMutex, todo, lg, via, new>>
  BY DEF RootClose, Goto, packageVars
<1>2. todo[u] = <<"close", "install">> /\ <<"close", "install">> \in Replaces
  BY <1>1 DEF Shapes, Place, Replaces
<1>3. Holds(u) /\ lg[u] = Current
  BY <1>1, <1>2, ReplacersHold DEF Package
<1>4. /\ pc'[u] = "unlock" /\ \A v \in Users \ {u} : pc'[v] = pc[v]
      /\ writersClosed \in [Loggers -> BOOLEAN] /\ \A v \in Users : new[v] \in Loggers
  BY <1>1 DEF Shapes, CallTypes, Types
<1>5. \A v \in Users : (Holds(v)' <=> Holds(v)) /\ (Installing(v)' <=> Installing(v))
  BY <1>1, <1>4 DEF Holds, Installing
<1>6. Closing(u)'
  BY <1>1, <1>2, <1>4 DEF Closing
<1>7. \A v \in Users : new[v] # Current => writersClosed'[new[v]] = writersClosed[new[v]]
  BY <1>1, <1>3, <1>4
<1> QED  BY <1>1, <1>3, <1>5, <1>6, <1>7 DEF Package

\* The end of a part.
LEMMA PackageUnlocks ==
    ASSUME LoggerAssumption, Shapes, Package, NEW u \in Users, Unlock(u)
    PROVE  Package'
<1>1. /\ pc' = [pc EXCEPT ![u] = After(todo[u])] /\ todo' = [todo EXCEPT ![u] = Tail(todo[u])]
      /\ pc[u] = "unlock" /\ UNCHANGED <<Current, pkgMutex, writersClosed, lg, via, new>>
  BY DEF Unlock, Proceed, Goto, packageVars, writerVars, After
<1>2. todo[u] \in Logs \cup Flushes \cup Replaces
  BY <1>1 DEF Shapes, Place
<1>3. /\ Tail(todo[u]) \in {<<>>} \cup Flushes \cup Replaces \cup Installs
      /\ After(todo[u]) \in {"leave", "install", "m"}
      /\ Tail(todo[u]) \in Installs \cup Replaces => todo[u] \in Replaces
      /\ todo[u] = <<"close", "install">> => After(todo[u]) = "install"
  BY <1>2, PartsLeft
<1>4. /\ pc'[u] = After(todo[u]) /\ todo'[u] = Tail(todo[u])
      /\ \A v \in Users \ {u} : pc'[v] = pc[v] /\ todo'[v] = todo[v]
  BY <1>1 DEF Shapes, CallTypes
<1>5. \A v \in Users : Holds(v)' <=> Holds(v)
  BY <1>1, <1>3, <1>4 DEF Holds
<1>6. \A v \in Users : Installing(v)' => Installing(v)
  BY <1>1, <1>3, <1>4 DEF Installing
<1>7. \A v \in Users : Closing(v) => Closing(v)'
  BY <1>1, <1>3, <1>4 DEF Closing
<1>8. todo'[u] \in Logs \cup Installs \cup Replaces => todo[u] \in Replaces
  BY <1>3, <1>4, PartListsDiffer
<1> QED  BY <1>1, <1>4, <1>5, <1>6, <1>7, <1>8 DEF Package

\* The next logger installed is an open one.
LEMMA PackageInstalls ==
    ASSUME LoggerAssumption, Shapes, Package, NEW u \in Users, Install(u)
    PROVE  Package'
<1>1. /\ pc' = [pc EXCEPT ![u] = After(todo[u])] /\ todo' = [todo EXCEPT ![u] = Tail(todo[u])]
      /\ pc[u] = "install" /\ Current' = new[u]
      /\ UNCHANGED <<pkgMutex, writersClosed, lg, via, new>>
  BY DEF Install, Proceed, Goto, writerVars, After
<1>2. todo[u] \in Installs
  BY <1>1 DEF Shapes, Place
<1>3. /\ Tail(todo[u]) \in {<<>>} \cup Flushes \cup Replaces \cup Installs
      /\ After(todo[u]) \in {"leave", "install", "m"}
      /\ Tail(todo[u]) \in Installs \cup Replaces => todo[u] \in Replaces
  BY <1>2, PartsLeft
<1>4. Tail(todo[u]) \notin Logs \cup Installs \cup Replaces
  BY <1>2, <1>3, PartListsDiffer
<1>5. /\ pc'[u] = After(todo[u]) /\ todo'[u] = Tail(todo[u])
      /\ \A v \in Users \ {u} : pc'[v] = pc[v] /\ todo'[v] = todo[v]
  BY <1>1 DEF Shapes, CallTypes
<1>6. Holds(u) /\ Installing(u)
  BY <1>1, <1>2, ReplacersHold
<1>7. \A v \in Users : Holds(v)' <=> Holds(v)
  BY <1>1, <1>3, <1>5 DEF Holds
<1>8. \A v \in Users : Holds(v) => v = u
  BY <1>6 DEF Package
<1>9. \A v \in Users : Installing(v)' => v # u /\ Installing(v)
  BY <1>1, <1>3, <1>4, <1>5 DEF Installing
<1>10. ~writersClosed[new[u]]
  BY <1>6 DEF Package
<1> QED  BY <1>1, <1>4, <1>5, <1>6, <1>7, <1>8, <1>9, <1>10 DEF Package

\* Giving the mutex back.
LEMMA PackageLeft ==
    ASSUME LoggerAssumption, Shapes, Package, NEW u \in Users, Leave(u)
    PROVE  Package'
<1>1. /\ pc[u] = "leave" /\ pc' = [pc EXCEPT ![u] = "idle"]
      /\ pkgMutex' = IF via[u] = "package" THEN Nil ELSE pkgMutex
      /\ lg' = [lg EXCEPT ![u] = Default] /\ via' = [via EXCEPT ![u] = "package"]
      /\ new' = [new EXCEPT ![u] = Default]
      /\ UNCHANGED <<Current, writersClosed, todo>>
  BY DEF Leave, Goto, writerVars
<1>2. /\ pc'[u] = "idle"
      /\ \A v \in Users \ {u} : pc'[v] = pc[v] /\ lg'[v] = lg[v] /\ via'[v] = via[v] /\ new'[v] = new[v]
  BY <1>1 DEF Shapes, CallTypes
<1>3. \A v \in Users : Holds(v)' => v # u /\ Holds(v)
  BY <1>2 DEF Holds
<1>4. \A v \in Users : Holds(v) /\ v # u => Holds(v)' /\ via[u] # "package"
  <2>1. via[u] = "package" => Holds(u)
    BY <1>1 DEF Holds
  <2> QED  BY <1>2, <2>1 DEF Holds, Package
<1>5. \A v \in Users : Installing(v)' => v # u /\ Installing(v)
  BY <1>1, <1>2 DEF Installing
<1>6. \A v \in Users : Closing(v) => v # u /\ Closing(v)'
  BY <1>1, <1>2 DEF Closing
<1>7. \A v \in Users : Holds(v)' => pkgMutex' = v
  BY <1>1, <1>3, <1>4 DEF Package
<1>8. \A v \in Users \ {u} : lg'[v] = lg[v] /\ todo'[v] = todo[v] /\ new'[v] = new[v]
  BY <1>1, <1>2
<1>9. writersClosed'[Current'] => \E v \in Users : Holds(v)' /\ Closing(v)'
  BY <1>1, <1>4, <1>6 DEF Package
<1> QED  BY <1>1, <1>3, <1>5, <1>7, <1>8, <1>9 DEF Package

\* A call: what it is to install is nobody else's.
LEMMA PackageCalled ==
    ASSUME LoggerAssumption, Shapes, Package, NEW u \in Users, NEW g \in Loggers, NEW by \in Via,
           NEW call \in {"Info", "Critical", "Flush", "UseLogger", "ReplaceLogger"},
           Call(u, call, by, g)
    PROVE  Package'
<1> DEFINE list == IF by = "package" THEN <<call>> ELSE Parts(call, g)
<1>1. /\ pc[u] = "idle" /\ todo' = [todo EXCEPT ![u] = list]
      /\ pc' = [pc EXCEPT ![u] = IF by = "package" THEN "pkg" ELSE "m"]
      /\ via' = [via EXCEPT ![u] = by] /\ new' = [new EXCEPT ![u] = g]
      /\ lg' = [lg EXCEPT ![u] = g]
      /\ UNCHANGED <<Current, pkgMutex, writersClosed>>
      /\ call \in {"UseLogger", "ReplaceLogger"} => by = "package" /\ Installable(g)
  BY DEF Call, Goto, packageVars, writerVars
<1>2. by # "package" => list \notin Installs \cup Replaces
  BY <1>1, PartsOf, PartListsDiffer DEF Shapes
<1>3. /\ pc'[u] = (IF by = "package" THEN "pkg" ELSE "m") /\ todo'[u] = list /\ via'[u] = by
      /\ new'[u] = g
      /\ \A v \in Users \ {u} : /\ pc'[v] = pc[v] /\ lg'[v] = lg[v] /\ via'[v] = via[v]
                                /\ new'[v] = new[v] /\ todo'[v] = todo[v]
  BY <1>1 DEF Shapes, CallTypes
<1>4. ~Holds(u)' /\ ~Holds(u) /\ \A v \in Users \ {u} : Holds(v)' <=> Holds(v)
  BY <1>1, <1>3 DEF Holds
<1>5. \A v \in Users \ {u} : Installing(v)' <=> Installing(v)
  BY <1>3 DEF Installing
<1>6. Installing(u)' => Installable(g)
  BY <1>1, <1>2, <1>3 DEF Installing
<1>7. Installable(g) => /\ g # Current /\ ~writersClosed[g]
                        /\ \A v \in Users : Installing(v) => new[v] # g
  BY DEF Installable, Installing
<1>8. \A v \in Users \ {u} : Closing(v)' <=> Closing(v)
  BY <1>3 DEF Closing
<1> HIDE DEF list
<1> QED  BY <1>1, <1>3, <1>4, <1>5, <1>6, <1>7, <1>8 DEF Package

\* One package function at a time, on an open logger.
LEMMA PackageStep ==
    ASSUME LoggerAssumption, Shapes, Package, [Next]_vars
    PROVE  Package'
<1>0. pc \in [Users -> Locations]
  BY DEF Shapes, CallTypes
<1>1. UNCHANGED <<Current, pkgMutex, writersClosed, callVars>> => Package'
  BY DEF Package, Holds, Installing, Closing, callVars
<1>2. ASSUME NEW u \in Users, Step(u) PROVE Package'
  <2>1. CASE LockM(u) \/ LockL(u) \/ Drain(u) \/ Remove(u) \/ Push(u) \/ DispatchNow(u) \/ RootFlush(u)
    <3>1. /\ pc[u] \in Inside \ {"unlock", "install"}
          /\ UNCHANGED <<Current, pkgMutex, todo, lg, via, new>>
      BY <2>1 DEF LockM, LockL, Drain, Remove, Push, DispatchNow, RootFlush, packageVars, Inside, Locations
    <3>2. writersClosed' = writersClosed
      BY <2>1 DEF LockM, LockL, Drain, Remove, Push, DispatchNow, RootFlush, writerVars, Dispatch
    <3>3. closed[lg[u]] = FALSE
      BY DEF Shapes, Types, CallTypes
    <3>4. \E l \in Inside : pc' = [pc EXCEPT ![u] = l]
      BY <2>1, <3>3 DEF LockM, LockL, Drain, Remove, Push, DispatchNow, RootFlush, Goto, Inside, Locations
    <3> QED  BY <3>1, <3>2, <3>4, PackageQuiet
  <2> QED  BY <1>2, <2>1, PackageLocked, PackageCloses, PackageUnlocks, PackageInstalls, PackageLeft DEF Step
<1>3. ASSUME NEW u \in Users, NEW g \in Loggers, NEW by \in Via,
             NEW call \in {"Info", "Critical", "Flush", "UseLogger", "ReplaceLogger"},
             Call(u, call, by, g)
      PROVE  Package'
  BY <1>3, PackageCalled
<1>4. ASSUME NEW g \in Loggers, Consume(g) PROVE Package'
  BY <1>1, <1>4 DEF Consume, Wait, Process, Processed, Pause, packageVars, writerVars, Dispatch
<1>5. UNCHANGED vars => Package'
  BY <1>1 DEF vars, packageVars, writerVars
<1> QED  BY <1>2, <1>3, <1>4, <1>5 DEF Next, Via

\* While a package function closes a logger, and afterwards, only a logger's own methods
\* put messages into it.
LEMMA OwnMethodsOnly ==
    ASSUME Shapes, Package, NEW u \in Users, NEW g \in Loggers, Grows(g, u),
           writersClosed[g] \/ \E v \in Users \ {u} : Holds(v)
    PROVE  via[u] = "logger"
<1> SUFFICES ASSUME via[u] = "package" PROVE FALSE
  BY DEF Shapes, CallTypes, Via
<1>1. lg[u] = g /\ todo[u] \in Logs /\ pc[u] \in {"push", "dispatch"}
  BY DEF Grows
<1>2. Holds(u) /\ ~Closing(u)
  BY <1>1 DEF Holds, Closing
<1>3. lg[u] = Current /\ \A v \in Users : Holds(v) => v = u
  BY <1>1, <1>2 DEF Package
<1> QED  BY <1>1, <1>2, <1>3 DEF Package

\* A queue with messages of a logger's own methods, and what comes into it.
LEMMA FromLoggerKept ==
    ASSUME Shapes, Ordered, NEW g \in Loggers, Changes(g), FromLogger(g),
           \A u \in Users : Grows(g, u) => via[u] = "logger"
    PROVE  FromLogger(g)'
<1>0. msgQueue[g] \in Seq(Message)
  BY DEF Shapes, Types
<1>1. CASE Rests(g) \/ Takes(g)
  BY <1>1 DEF Rests, Takes, FromLogger
<1>2. CASE Drops(g)
  <2>1. msgQueue[g] # <<>> /\ msgQueue'[g] = Tail(msgQueue[g])
    BY <1>2 DEF Drops
  <2>2. /\ DOMAIN Tail(msgQueue[g]) = 1..(Len(msgQueue[g]) - 1) /\ Len(msgQueue[g]) \in Nat
        /\ DOMAIN msgQueue[g] = 1..Len(msgQueue[g])
        /\ \A i \in 1..(Len(msgQueue[g]) - 1) : Tail(msgQueue[g])[i] = msgQueue[g][i + 1]
    BY <1>0, <2>1, OneLess
  <2>3. \A i \in 1..(Len(msgQueue[g]) - 1) : i + 1 \in DOMAIN msgQueue[g]
    BY <2>2
  <2> QED  BY <2>1, <2>2, <2>3 DEF FromLogger
<1>3. ASSUME NEW u \in Users, Grows(g, u) PROVE FromLogger(g)'
  <2> DEFINE x == Msg(u)
  <2>1. x \in Message /\ x.via = "logger"
    BY <1>3, GrowsMessage DEF Msg
  <2>2. msgQueue'[g] = msgQueue[g] \/ msgQueue'[g] = Append(msgQueue[g], x)
    BY <1>3 DEF Grows
  <2> HIDE DEF x
  <2>3. CASE msgQueue'[g] = msgQueue[g]
    BY <2>3 DEF FromLogger
  <2>4. CASE msgQueue'[g] = Append(msgQueue[g], x)
    <3>1. /\ DOMAIN Append(msgQueue[g], x) = 1..(Len(msgQueue[g]) + 1)
          /\ DOMAIN msgQueue[g] = 1..Len(msgQueue[g]) /\ Len(msgQueue[g]) \in Nat
          /\ \A i \in 1..Len(msgQueue[g]) : Append(msgQueue[g], x)[i] = msgQueue[g][i]
          /\ Append(msgQueue[g], x)[Len(msgQueue[g]) + 1] = x
      BY <1>0, <2>1, OneMore
    <3>2. \A i \in 1..(Len(msgQueue[g]) + 1) : i \in DOMAIN msgQueue[g] \/ i = Len(msgQueue[g]) + 1
      BY <3>1
    <3> QED  BY <2>1, <2>4, <3>1, <3>2 DEF FromLogger
  <2> QED  BY <2>2, <2>3, <2>4
<1> QED  BY <1>1, <1>2, <1>3 DEF Changes

\* Where the writers of a logger come to be closed.
LEMMA ClosedStep ==
    ASSUME LoggerAssumption, Shapes, [Next]_vars, NEW g \in Loggers, writersClosed'[g]
    PROVE  writersClosed[g] \/ \E u \in Users : RootClose(u) /\ lg[u] = g
<1>0. writersClosed \in [Loggers -> BOOLEAN]
  BY DEF Shapes, Types
<1>1. ASSUME NEW u \in Users, Step(u), ~RootClose(u) PROVE writersClosed' = writersClosed
  BY <1>1 DEF Step, LockPkg, LockM, LockL, Drain, Remove, Push, DispatchNow, RootFlush, Unlock,
              Install, Leave, writerVars, Dispatch
<1>2. ASSUME NEW u \in Users, RootClose(u) PROVE writersClosed[g] \/ lg[u] = g
  BY <1>0, <1>2 DEF RootClose
<1>3. ASSUME NEW u \in Users, NEW h \in Loggers, NEW by \in Via,
             NEW call \in {"Info", "Critical", "Flush", "UseLogger", "ReplaceLogger"},
             Call(u, call, by, h)
      PROVE  writersClosed' = writersClosed
  BY <1>3 DEF Call, writerVars
<1>4. ASSUME NEW h \in Loggers, Consume(h) PROVE writersClosed' = writersClosed
  BY <1>4 DEF Consume, Wait, Process, Processed, Pause, writerVars, Dispatch
<1>5. UNCHANGED vars => writersClosed' = writersClosed
  BY DEF vars, writerVars
<1> QED  BY <1>1, <1>2, <1>3, <1>4, <1>5 DEF Next, Via

\* A closed logger's queue.
LEMMA ClosedQueueStep ==
    ASSUME LoggerAssumption, Shapes, Locked, Queued, Ordered, Packaged, [Next]_vars,
           NEW g \in Loggers, writersClosed'[g]
    PROVE  FromLogger(g)'
<1>1. CASE writersClosed[g]
  <2>1. FromLogger(g) /\ \A u \in Users : Grows(g, u) => via[u] = "logger"
    BY <1>1, OwnMethodsOnly DEF Packaged
  <2> QED  BY <2>1, FromLoggerKept, ChangesStep
<1>2. ASSUME NEW u \in Users, RootClose(u), lg[u] = g PROVE FromLogger(g)'
  <2>1. msgQueue' = msgQueue /\ pc[u] = "rootClose"
    BY <1>2 DEF RootClose, queueVars
  <2>2. FromLogger(g)
    BY <1>2, <2>1 DEF Packaged, Shapes, Place
  <2> QED  BY <2>1, <2>2 DEF FromLogger
<1> QED  BY <1>1, <1>2, ClosedStep

\* The queue of a logger about to be closed, which Close has emptied.
LEMMA ClosingQueueStep ==
    ASSUME LoggerAssumption, Shapes, Locked, Queued, Ordered, Packaged, [Next]_vars,
           NEW v \in Users, pc'[v] \in {"rootFlush", "rootClose"},
           todo'[v] = <<"close", "install">>
    PROVE  FromLogger(lg[v])'
<1>0. /\ pc \in [Users -> Locations] /\ todo \in [Users -> {<<>>} \cup Called \cup Logs \cup Flushes
                                                           \cup Replaces \cup Installs]
      /\ lg \in [Users -> Loggers] /\ closed = [g \in Loggers |-> FALSE]
  BY DEF Shapes, CallTypes, Types
<1>1. PICK g \in Loggers : lg[v] = g
  BY <1>0
<1>2. <<"close", "install">> \in Replaces
  BY DEF Replaces
<1>3. /\ lg'[v] = lg[v] /\ todo'[v] = todo[v] /\ pc[v] \notin {"idle", "pkg"}
      /\ \/ pc'[v] = pc[v]
         \/ pc[v] = "rootFlush"
         \/ msgQueue'[lg[v]] = <<>>
  <2>1. CASE UNCHANGED vars
    BY <2>1 DEF vars, callVars
  <2>2. ASSUME NEW h \in Loggers, Consume(h) PROVE UNCHANGED <<lg, todo, pc>>
    BY <2>2 DEF Consume, Wait, Process, Processed, Pause, callVars
  <2>3. ASSUME NEW u \in Users, NEW h \in Loggers, NEW by \in Via,
               NEW call \in {"Info", "Critical", "Flush", "UseLogger", "ReplaceLogger"},
               Call(u, call, by, h)
        PROVE  u # v /\ lg'[v] = lg[v] /\ todo'[v] = todo[v] /\ pc'[v] = pc[v]
    <3>1. u # v
      <4>1. pc'[u] \in {"pkg", "m"}
        BY <1>0, <2>3 DEF Call, Goto
      <4> QED  BY <4>1
    <3> QED  BY <1>0, <2>3, <3>1 DEF Call, Goto
  <2>4. ASSUME NEW u \in Users \ {v}, Step(u)
        PROVE  lg'[v] = lg[v] /\ todo'[v] = todo[v] /\ pc'[v] = pc[v]
    BY <1>0, <2>4 DEF Step, LockPkg, LockM, LockL, Drain, Remove, Push, DispatchNow, RootFlush,
                      RootClose, Unlock, Install, Leave, Proceed, Goto
  <2>5. CASE Step(v)
    <3>1. CASE LockM(v)
      <4>1. /\ pc[v] = "m" /\ lg' = lg /\ todo' = todo /\ msgQueue' = msgQueue
            /\ Kind[lg[v]] = "sync"
        BY <1>0, <3>1 DEF LockM, Goto, queueVars
      <4> QED  BY <1>0, <4>1 DEF Queued
    <3>2. CASE Drain(v)
      <4>1. /\ pc[v] = "drain" /\ lg' = lg /\ todo' = todo /\ msgQueue' = msgQueue
            /\ msgQueue[lg[v]] = <<>>
        BY <1>0, <3>2 DEF Drain, Goto, queueVars
      <4> QED  BY <4>1
    <3>3. CASE RootFlush(v)
      BY <3>3 DEF RootFlush
    <3>4. CASE \/ LockPkg(v) \/ LockL(v) \/ Remove(v) \/ Push(v) \/ DispatchNow(v)
               \/ RootClose(v) \/ Unlock(v) \/ Install(v) \/ Leave(v)
      <4>1. \E l \in Locations \ {"rootFlush", "rootClose"} : pc' = [pc EXCEPT ![v] = l]
        BY <3>4 DEF LockPkg, LockL, Remove, Push, DispatchNow, RootClose, Unlock, Install, Leave,
                    Proceed, Goto, Locations
      <4> QED  BY <1>0, <4>1
    <3> QED  BY <2>5, <3>1, <3>2, <3>3, <3>4 DEF Step
  <2> QED  BY <2>1, <2>2, <2>3, <2>4, <2>5 DEF Next, Via
<1>4. CASE msgQueue'[g] = <<>>
  BY <1>1, <1>3, <1>4 DEF FromLogger
<1>5. CASE msgQueue'[g] # <<>>
  <2>1. pc[v] \in {"rootFlush", "rootClose"} /\ todo[v] = <<"close", "install">>
    BY <1>1, <1>3, <1>5
  <2>2. FromLogger(g) /\ Holds(v)
    BY <1>1, <1>2, <1>3, <2>1, ReplacersHold DEF Packaged
  <2>3. ASSUME NEW u \in Users, Grows(g, u) PROVE via[u] = "logger"
    <3>1. u # v
      BY <2>1, <2>3 DEF Grows
    <3> QED  BY <2>2, <2>3, <3>1, OwnMethodsOnly DEF Packaged
  <2>4. FromLogger(g)'
    BY <2>2, <2>3, FromLoggerKept, ChangesStep
  <2> QED  BY <1>1, <1>3, <2>4 DEF FromLogger
<1> QED  BY <1>4, <1>5

\* What the closed writers get.
LEMMA LateStep ==
    ASSUME LoggerAssumption, Shapes, Locked, Queued, Ordered, Packaged, [Next]_vars,
           NEW msg \in late'
    PROVE  msg.via = "logger"
<1>1. CASE msg \in late
  BY <1>1 DEF Packaged, PackageOpen
<1>2. ASSUME NEW g \in Loggers, msgQueue[g] # <<>>, Dispatch(g, Head(msgQueue[g])), msg \notin late
      PROVE  msg.via = "logger"
  <2>1. writersClosed[g] /\ msg = Head(msgQueue[g])
    BY <1>2 DEF Dispatch
  <2>2. FromLogger(g)
    BY <2>1 DEF Packaged
  <2>3. Head(msgQueue[g]) = msgQueue[g][1] /\ 1 \in DOMAIN msgQueue[g]
    BY <1>2, OneLess DEF Shapes, Types
  <2> QED  BY <2>1, <2>2, <2>3 DEF FromLogger
<1>3. ASSUME NEW u \in Users, DispatchNow(u), msg \notin late PROVE msg.via = "logger"
  <2>1. writersClosed[lg[u]] /\ msg = Msg(u) /\ lg[u] \in Loggers
    BY <1>3 DEF DispatchNow, Dispatch, Shapes, CallTypes
  <2>2. Grows(lg[u], u)
    BY <1>3, ChangesLog
  <2>3. via[u] = "logger"
    BY <2>1, <2>2, OwnMethodsOnly DEF Packaged
  <2> QED  BY <2>1, <2>3 DEF Msg
<1>4. ASSUME NEW u \in Users, Drain(u), msg \notin late PROVE msg.via = "logger"
  <2>1. lg[u] \in Loggers
    BY DEF Shapes, CallTypes
  <2>2. msgQueue[lg[u]] # <<>> /\ Dispatch(lg[u], Head(msgQueue[lg[u]]))
    BY <1>4 DEF Drain, writerVars
  <2> QED  BY <1>2, <1>4, <2>1, <2>2
<1>5. ASSUME NEW g \in Loggers, Process(g), msg \notin late PROVE msg.via = "logger"
  <2>1. msgQueue[g] # <<>> /\ Dispatch(g, Head(msgQueue[g]))
    BY <1>5 DEF Process, Queued
  <2> QED  BY <1>2, <1>5, <2>1
<1>6. ASSUME NEW u \in Users, Step(u), ~Drain(u), ~DispatchNow(u) PROVE late' = late
  BY <1>6 DEF Step, LockPkg, LockM, LockL, Remove, Push, RootFlush, RootClose, Unlock, Install,
              Leave, writerVars
<1>7. ASSUME NEW g \in Loggers, Consume(g), ~Process(g) PROVE late' = late
  BY <1>7 DEF Consume, Wait, Processed, Pause, writerVars
<1>8. ASSUME NEW u \in Users, NEW h \in Loggers, NEW by \in Via,
             NEW call \in {"Info", "Critical", "Flush", "UseLogger", "ReplaceLogger"},
             Call(u, call, by, h)
      PROVE  late' = late
  BY <1>8 DEF Call, writerVars
<1>9. UNCHANGED vars => late' = late
  BY DEF vars, writerVars
<1> QED  BY <1>1, <1>3, <1>4, <1>5, <1>6, <1>7, <1>8, <1>9 DEF Next, Via

\* Package functions and closed loggers.
LEMMA PackagedStep ==
    ASSUME LoggerAssumption, Shapes, Locked, Queued, Ordered, Packaged, [Next]_vars
    PROVE  Packaged'
<1>1. Package'
  BY PackageStep DEF Packaged
<1>2. \A g \in Loggers : writersClosed'[g] => FromLogger(g)'
  BY ClosedQueueStep
<1>3. \A v \in Users : pc'[v] \in {"rootFlush", "rootClose"} /\ todo'[v] = <<"close", "install">>
                         => FromLogger(lg[v])'
  BY ClosingQueueStep
<1>4. PackageOpen'
  BY LateStep DEF PackageOpen
<1> QED  BY <1>1, <1>2, <1>3, <1>4 DEF Packaged

\* The invariant holds at the start.
LEMMA InvInit == ASSUME LoggerAssumption, Init PROVE Inv
<1>1. Shapes
  BY ShapesInit
<1>2. Locked
  BY DEF Init, Locked
<1>3. /\ \A g \in Loggers : msgQueue[g] = <<>> /\ written[g] = <<>> /\ ~Taken(g)
      /\ Len(<<>>) = 0 /\ DOMAIN <<>> = {} /\ Range(<<>>) = {} /\ <<>> \o <<>> = <<>>
  <2>1. \A g \in Loggers : msgQueue[g] = <<>> /\ written[g] = <<>> /\ ~Taken(g)
    BY DEF Init, Taken
  <2>2. Len(<<>>) = 0 /\ DOMAIN <<>> = {}
    OBVIOUS
  <2>3. Range(<<>>) = {}
    BY <2>2 DEF Range
  <2>4. <<>> \in Seq(Message)
    BY EmptySeq
  <2>5. <<>> \o <<>> = <<>>
    BY <2>4, ConcatEmptySeq
  <2> QED  BY <2>1, <2>2, <2>3, <2>5
<1>4. Queued
  BY <1>3 DEF Init, Queued, QueueBounded, LoggerAssumption
<1>5. \A g \in Loggers : Log(g) = <<>>
  BY <1>3 DEF Log
<1>6. Ordered
  BY <1>3, <1>5 DEF Init, Ordered, InOrder, Unsent
<1>7. Flushing
  BY <1>3 DEF Init, Flushing, FlushDelivers, Accepted
<1>8. Packaged
  <2>1. Default \in Loggers /\ \A u \in Users : ~Holds(u) /\ ~Installing(u)
    BY DEF Init, LoggerAssumption, Holds, Installing
  <2>2. \A g \in Loggers : FromLogger(g)
    BY <1>3 DEF FromLogger
  <2> QED  BY <2>1, <2>2 DEF Init, Packaged, Package, PackageOpen
<1> QED  BY <1>1, <1>2, <1>4, <1>6, <1>7, <1>8 DEF Inv

\* Every step keeps it.
LEMMA InvStep == ASSUME LoggerAssumption, Inv, [Next]_vars PROVE Inv'
BY ShapesStep, LockedStep, QueuedStep, OrderedStep, FlushingStep, PackagedStep DEF Inv

\* Every reachable state of the loggers satisfies the invariant.
LEMMA LoggersInvariant == Spec => []Inv
<1>1. Init => Inv
  BY InvInit, LoggerAssumption
<1>2. Inv /\ [Next]_vars => Inv'
  BY InvStep, LoggerAssumption
<1> QED  BY <1>1, <1>2, PTL DEF Spec

\* What is written is the beginning of the log.
LEMMA WrittenFirst ==
    ASSUME Shapes, Queued, NEW g \in Loggers
    PROVE  /\ DOMAIN written[g] \subseteq DOMAIN Log(g)
           /\ \A i \in DOMAIN written[g] : Log(g)[i] = written[g][i]
<1> DEFINE w == written[g]
           q == IF Taken(g) THEN Tail(msgQueue[g]) ELSE msgQueue[g]
<1>1. w \in Seq(Message) /\ q \in Seq(Message)
  BY HeadTailProperties DEF Shapes, Types, Queued
<1>2. Log(g) = w \o q
  BY DEF Log
<1> HIDE DEF w, q
<1>3. /\ Len(w) \in Nat /\ Len(q) \in Nat /\ DOMAIN w = 1..Len(w)
      /\ DOMAIN (w \o q) = 1..(Len(w) + Len(q))
      /\ \A i \in 1..(Len(w) + Len(q)) : (w \o q)[i] = IF i <= Len(w) THEN w[i] ELSE q[i - Len(w)]
  BY <1>1, ConcatProperties, LenProperties
<1>4. DOMAIN w \subseteq DOMAIN (w \o q) /\ \A i \in DOMAIN w : (w \o q)[i] = w[i]
  BY <1>3
<1> QED  BY <1>2, <1>4 DEF w

\* Types, and the bound on the queues: processItem, flushQueue and addMsgToQueue leave a
\* queue with MaxQueueSize messages at most, whoever logs, and at most all of what is
\* written has left the buffers.
THEOREM LoggersTypeOK == Spec => []TypeOK
<1>1. Inv => TypeOK
  <2> SUFFICES ASSUME Inv PROVE TypeOK
    OBVIOUS
  <2>1. Types /\ CallTypes /\ QueueBounded
    BY DEF Inv, Shapes, Queued
  <2>2. \A g \in Loggers : Accepted(g) \subseteq Message
    BY <2>1, AcceptedType
  <2>3. \A g \in Loggers : flushed[g] \in 0..Len(written[g])
    <3> SUFFICES ASSUME NEW g \in Loggers PROVE flushed[g] \in 0..Len(written[g])
      OBVIOUS
    <3>1. flushed[g] \in Nat /\ flushed[g] <= Len(written[g]) /\ Len(written[g]) \in Nat
      BY <2>1, LenProperties DEF Types, Inv, Flushing
    <3> QED  BY <3>1
  <2>4. \A u \in Users : before[u] \subseteq Message
    BY <2>1 DEF CallTypes
  <2> QED  BY <2>1, <2>2, <2>3, <2>4 DEF TypeOK, Types
<1> QED  BY <1>1, LoggersInvariant, PTL

\* The messages of a goroutine reach a logger's writers in the order it logged them and
\* none twice, though the consumer, flushes and messages that find the queue full all
\* take from one queue.
THEOREM LoggersEachOnceInOrder == Spec => []EachOnceInOrder
<1>1. Inv => EachOnceInOrder
  <2> SUFFICES ASSUME Inv, NEW g \in Loggers, NEW i \in DOMAIN written[g], NEW j \in DOMAIN written[g],
                      i < j, written[g][i].user = written[g][j].user
               PROVE  written[g][i].n < written[g][j].n
    BY DEF EachOnceInOrder
  <2>1. InOrder(Log(g))
    BY DEF Inv, Ordered
  <2>2. /\ i \in DOMAIN Log(g) /\ j \in DOMAIN Log(g)
        /\ Log(g)[i] = written[g][i] /\ Log(g)[j] = written[g][j]
    BY WrittenFirst DEF Inv
  <2> QED  BY <2>1, <2>2 DEF InOrder
<1> QED  BY <1>1, LoggersInvariant, PTL

\* When Flush or Critical returns, whatever its logger had accepted before is out of the
\* queue and out of the writers' buffers.
THEOREM LoggersFlushDeliver == Spec => []FlushDelivers
<1>1. Inv => FlushDelivers
  BY DEF Inv, Flushing
<1> QED  BY <1>1, LoggersInvariant, PTL

\* While ReplaceLogger closes a logger and installs the next, no message of a package
\* function gets to the closed writers.
THEOREM PackageStaysOpen == Spec => []PackageOpen
<1>1. Inv => PackageOpen
  BY DEF Inv, Packaged
<1> QED  BY <1>1, LoggersInvariant, PTL
=============================================================================
