-------------------------- MODULE LogWritersProofs --------------------------
(***************************************************************************)
(* What becomes of the messages given to a writer, for buffers of every    *)
(* size and any number of messages, flushes and failures.                  *)
(***************************************************************************)
EXTENDS LogWriters, SequenceTheorems, FiniteSetTheorems, TLAPS

Msg == 1..MaxMessages

Rising(s) == \A i, j \in DOMAIN s : i < j => s[i] < s[j]

UpTo(s, k) == \A i \in DOMAIN s : s[i] <= k

Before(s, t) == \A i \in DOMAIN s, j \in DOMAIN t : s[i] < t[j]

\* The last message that has got past Write.
Passed == IF bufferMutex = "writer" THEN n - 1 ELSE n

\* Who holds the mutex does what.
Busy ==
    /\ phase = "none" <=> bufferMutex = "nobody"
    /\ phase \in {"append", "chunk"} => bufferMutex = "writer"
    /\ bufferMutex = "writer" => n # 0
    /\ phase = "append" => Len(buffer) < BufferSize
    /\ phase = "chunk" => buffer = << >>
    /\ ~Buffered => phase \in {"none", "chunk"} /\ buffer = << >>

\* What has arrived comes before what is in the buffer, and both before the message at hand.
Queued ==
    /\ Rising(delivered) /\ Rising(buffer) /\ Before(delivered, buffer)
    /\ UpTo(delivered, Passed) /\ UpTo(buffer, Passed)

Inv ==
    /\ TypeOK
    /\ n \in 0..MaxMessages /\ delivered \in Seq(Msg)
    /\ big \in BOOLEAN /\ bufErr \in BOOLEAN
    /\ Busy /\ Queued /\ HeldOrDelivered
-----------------------------------------------------------------------------
\* One sequence after another.
LEMMA Joined ==
    ASSUME WritersAssumption,
           NEW s \in Seq(Msg), NEW t \in Seq(Msg), NEW k \in Nat,
           Rising(s), Rising(t), Before(s, t), UpTo(s, k), UpTo(t, k)
    PROVE  /\ s \o t \in Seq(Msg) /\ Rising(s \o t) /\ UpTo(s \o t, k)
           /\ Range(s \o t) = Range(s) \cup Range(t)
<1> DEFINE u == s \o t
<1>1. /\ u \in Seq(Msg) /\ Len(u) = Len(s) + Len(t)
      /\ \A i \in 1..(Len(s) + Len(t)) : u[i] = IF i <= Len(s) THEN s[i] ELSE t[i - Len(s)]
  BY ConcatProperties
<1>2. /\ DOMAIN s = 1..Len(s) /\ DOMAIN t = 1..Len(t) /\ DOMAIN u = 1..Len(u)
      /\ Len(s) \in Nat /\ Len(t) \in Nat
  BY <1>1, LenProperties
<1>3. (\A i \in DOMAIN s : s[i] \in Nat) /\ (\A i \in DOMAIN t : t[i] \in Nat)
  <2>1. (\A i \in 1..Len(s) : s[i] \in Msg) /\ (\A i \in 1..Len(t) : t[i] \in Msg)
    BY ElementOfSeq
  <2> QED  BY <1>2, <2>1 DEF Msg, WritersAssumption
<1>4. Range(u) = Range(s) \cup Range(t)
  BY RangeConcatenation
<1> HIDE DEF u
<1>5. ASSUME NEW i \in DOMAIN u, NEW j \in DOMAIN u, i < j
      PROVE  u[i] < u[j]
  <2>1. CASE j <= Len(s)
    <3>1. i \in DOMAIN s /\ j \in DOMAIN s /\ u[i] = s[i] /\ u[j] = s[j]
      BY <1>1, <1>2, <1>5, <2>1
    <3> QED  BY <1>5, <3>1 DEF Rising
  <2>2. CASE i <= Len(s) /\ ~(j <= Len(s))
    <3>1. i \in DOMAIN s /\ j - Len(s) \in DOMAIN t /\ u[i] = s[i] /\ u[j] = t[j - Len(s)]
      BY <1>1, <1>2, <2>2
    <3> QED  BY <3>1 DEF Before
  <2>3. CASE ~(i <= Len(s))
    <3>1. /\ i - Len(s) \in DOMAIN t /\ j - Len(s) \in DOMAIN t /\ i - Len(s) < j - Len(s)
          /\ u[i] = t[i - Len(s)] /\ u[j] = t[j - Len(s)]
      BY <1>1, <1>2, <1>5, <2>3
    <3> QED  BY <3>1 DEF Rising
  <2> QED  BY <1>2, <2>1, <2>2, <2>3
<1>6. ASSUME NEW i \in DOMAIN u
      PROVE  u[i] <= k
  <2>1. CASE i <= Len(s)
    <3>1. i \in DOMAIN s /\ u[i] = s[i]
      BY <1>1, <1>2, <2>1
    <3> QED  BY <3>1 DEF UpTo
  <2>2. CASE ~(i <= Len(s))
    <3>1. i - Len(s) \in DOMAIN t /\ u[i] = t[i - Len(s)]
      BY <1>1, <1>2, <2>2
    <3> QED  BY <3>1 DEF UpTo
  <2> QED  BY <2>1, <2>2
<1>7. Rising(u) /\ UpTo(u, k)
  BY <1>5, <1>6 DEF Rising, UpTo
<1> QED  BY <1>1, <1>4, <1>7 DEF u

\* A message on its own, after those before it.
LEMMA Single ==
    ASSUME WritersAssumption, NEW s \in Seq(Msg), NEW m \in Msg, UpTo(s, m - 1)
    PROVE  /\ <<m>> \in Seq(Msg) /\ Rising(<<m>>) /\ UpTo(<<m>>, m) /\ UpTo(s, m)
           /\ Before(s, <<m>>) /\ Range(<<m>>) = {m}
<1> DEFINE t == <<m>>
<1>1. t \in Seq(Msg) /\ DOMAIN t = {1} /\ t[1] = m
  OBVIOUS
<1>2. \A i \in DOMAIN s : s[i] \in Msg
  BY ElementOfSeq, LenProperties
<1>3. m \in Nat /\ Msg \subseteq Nat
  BY DEF Msg, WritersAssumption
<1> HIDE DEF t
<1>4. Rising(t) /\ UpTo(t, m) /\ Range(t) = {m}
  BY <1>1, <1>3 DEF Rising, UpTo, Range
<1>5. \A i \in DOMAIN s : s[i] <= m /\ s[i] < m
  <2> SUFFICES ASSUME NEW i \in DOMAIN s PROVE s[i] <= m /\ s[i] < m
    OBVIOUS
  <2>1. s[i] \in Nat /\ s[i] <= m - 1
    BY <1>2, <1>3 DEF UpTo
  <2> QED  BY <1>3, <2>1
<1> QED  BY <1>1, <1>4, <1>5 DEF UpTo, Before, t

\* A write that succeeds appends all its messages to what was delivered, one that fails none.
LEMMA InnerWriteDelivers ==
    ASSUME NEW msgs, InnerWrite(msgs), innerWriter \in {"nil", "open", "closed", "nilFile"}
    PROVE  delivered' = delivered \o msgs /\ innerWriter' \in {"nil", "open", "closed", "nilFile"}
BY DEF InnerWrite, FileWrite, ConnWrite, Deliver, AfterWrite

\* Neither a file nor a connection keeps a part of what it failed to write.
LEMMA InnerFailsDelivers ==
    ASSUME InnerFails, innerWriter \in {"nil", "open", "closed", "nilFile"}
    PROVE  delivered' = delivered /\ innerWriter' \in {"nil", "open", "closed", "nilFile"}
BY DEF InnerFails, FileFails, ConnFails, Fault

\* A new writer is empty.
LEMMA WritersInit == ASSUME WritersAssumption, Init PROVE Inv
<1>1. << >> \in Seq(Msg) /\ Len(<< >>) = 0 /\ DOMAIN << >> = {}
  OBVIOUS
<1>2. Queued
  BY <1>1 DEF Init, Queued, Rising, UpTo, Before
<1>3. Busy
  BY <1>1 DEF Init, Busy
<1>4. TypeOK
  BY <1>1 DEF Init, TypeOK, WritersAssumption, Msg
<1>5. HeldOrDelivered
  BY DEF Init, HeldOrDelivered
<1>6. n \in 0..MaxMessages /\ delivered \in Seq(Msg)
  BY <1>1 DEF Init, WritersAssumption
<1> QED  BY <1>2, <1>3, <1>4, <1>5, <1>6 DEF Init, Inv

\* The invariant through writes, flushes by anybody, failures and a close.
LEMMA WritersStep ==
    ASSUME WritersAssumption, Inv, [Next]_vars
    PROVE  Inv'
<1> USE DEF Inv
<1>1. CASE UNCHANGED vars
  BY <1>1 DEF vars, innerVars, TypeOK, Busy, Queued, HeldOrDelivered, Rising, UpTo, Before, Passed
<1>2. ASSUME NEW isBig \in BOOLEAN, Write(isBig)
      PROVE  Inv'
  <2>1. /\ bufferMutex = "nobody" /\ n \in 0..(MaxMessages - 1) /\ n' = n + 1 /\ big' = isBig
        /\ bufferMutex' = "writer"
        /\ phase' = IF ~Buffered THEN "chunk"
                    ELSE IF isBig \/ Len(buffer) = BufferSize THEN "flush" ELSE "append"
        /\ UNCHANGED <<innerWriter, delivered, buffer, bufErr, accepted>>
    BY <1>2 DEF Write, innerVars, WritersAssumption
  <2>2. Passed' = Passed
    BY <2>1 DEF Passed
  <2>3. Queued' /\ HeldOrDelivered'
    BY <2>1, <2>2 DEF Queued, HeldOrDelivered, Rising, UpTo, Before
  <2>4. Len(buffer) \in Nat
    BY LenProperties DEF TypeOK
  <2>5. Busy'
    BY <2>1, <2>4 DEF Busy, TypeOK, WritersAssumption
  <2>6. TypeOK' /\ n' \in 0..MaxMessages
    BY <2>1 DEF TypeOK, WritersAssumption
  <2> QED  BY <2>1, <2>3, <2>5, <2>6
<1>3. ASSUME NEW by \in {"user", "ticker"}, Flush(by)
      PROVE  Inv'
  <2>1. /\ Buffered /\ bufferMutex = "nobody" /\ bufferMutex' = by /\ phase' = "flush"
        /\ UNCHANGED <<innerVars, buffer, bufErr, big, n, accepted>>
    BY <1>3 DEF Flush
  <2> QED  BY <2>1 DEF innerVars, TypeOK, Busy, Queued, HeldOrDelivered, Rising, UpTo, Before, Passed
<1>4. CASE FlushInnerFails
  <2>1. /\ phase = "flush" /\ bufErr' = TRUE /\ bufferMutex' = "nobody" /\ phase' = "none"
        /\ UNCHANGED <<buffer, big, n, accepted>>
    BY <1>4 DEF FlushInnerFails, Release
  <2>2. delivered' = delivered /\ innerWriter' \in {"nil", "open", "closed", "nilFile"}
    BY <1>4, InnerFailsDelivers DEF FlushInnerFails, innerVars, TypeOK
  <2>3. \A i \in DOMAIN delivered : delivered[i] \in Msg
    BY ElementOfSeq, LenProperties
  <2>4. \A i \in DOMAIN buffer : buffer[i] \in Msg
    BY ElementOfSeq, LenProperties DEF TypeOK, Msg
  <2>5. UpTo(delivered, n) /\ UpTo(buffer, n)
    BY <2>3, <2>4 DEF Queued, UpTo, Passed, Msg
  <2>6. Queued'
    BY <2>1, <2>2, <2>5 DEF Queued, Rising, UpTo, Before, Passed
  <2> QED  BY <2>1, <2>2, <2>6 DEF TypeOK, Busy, HeldOrDelivered
<1>5. CASE FlushInner
  <2>1. /\ phase = "flush" /\ ~bufErr /\ buffer' = << >>
        /\ UNCHANGED <<bufErr, big, n, accepted>>
    BY <1>5 DEF FlushInner
  <2>2. \/ /\ bufferMutex = "writer" /\ bufferMutex' = "writer"
           /\ phase' \in {"chunk", "append"}
        \/ bufferMutex # "writer" /\ bufferMutex' = "nobody" /\ phase' = "none"
    BY <1>5 DEF FlushInner, Release
  <2>3. /\ delivered' = delivered \o buffer
        /\ innerWriter' \in {"nil", "open", "closed", "nilFile"}
    <3>1. CASE buffer = << >>
      BY <1>5, <3>1, ConcatEmptySeq DEF FlushInner, innerVars, TypeOK
    <3>2. CASE buffer # << >>
      BY <1>5, <3>2, InnerWriteDelivers DEF FlushInner, TypeOK
    <3> QED  BY <3>1, <3>2
  <2>4. Passed \in Nat /\ Passed' = Passed
    BY <2>1, <2>2 DEF Passed, Busy, WritersAssumption
  <2>5. /\ delivered' \in Seq(Msg) /\ Rising(delivered') /\ UpTo(delivered', Passed)
        /\ Range(delivered') = Range(delivered) \cup Range(buffer)
    <3>1. buffer \in Seq(Msg)
      BY DEF TypeOK, Msg
    <3> QED  BY <2>3, <2>4, <3>1, Joined DEF Queued
  <2>6. Len(<< >>) = 0 /\ DOMAIN << >> = {} /\ << >> \in Seq(1..MaxMessages)
    OBVIOUS
  <2>7. Queued'
    BY <2>1, <2>4, <2>5, <2>6 DEF Queued, Rising, UpTo, Before
  <2>8. HeldOrDelivered'
    BY <2>1, <2>5 DEF HeldOrDelivered
  <2>9. Busy'
    BY <2>1, <2>2, <2>6 DEF Busy, WritersAssumption
  <2>10. TypeOK'
    BY <2>1, <2>2, <2>3, <2>6 DEF TypeOK, WritersAssumption
  <2> QED  BY <2>1, <2>5, <2>7, <2>8, <2>9, <2>10
<1>6. CASE AppendToBuffer
  <2>1. /\ phase = "append" /\ bufferMutex = "writer" /\ n # 0
        /\ buffer' = (IF bufErr THEN buffer ELSE Append(buffer, n))
        /\ accepted' = accepted \cup {n} /\ bufferMutex' = "nobody" /\ phase' = "none"
        /\ UNCHANGED <<innerWriter, delivered, bufErr, big, n>>
    BY <1>6 DEF AppendToBuffer, Release, innerVars, Busy
  <2>2. n \in Msg /\ n \in Nat /\ Passed = n - 1 /\ Passed' = n
    BY <2>1 DEF Msg, Passed, WritersAssumption
  <2>3. buffer \in Seq(Msg)
    BY DEF TypeOK, Msg
  <2>4. UpTo(delivered, n - 1) /\ UpTo(buffer, n - 1)
    BY <2>2 DEF Queued
  <2>5. /\ <<n>> \in Seq(Msg) /\ Rising(<<n>>) /\ UpTo(<<n>>, n) /\ UpTo(buffer, n)
        /\ Before(buffer, <<n>>) /\ Range(<<n>>) = {n}
        /\ UpTo(delivered, n) /\ Before(delivered, <<n>>)
    BY <2>2, <2>3, <2>4, Single
  <2>6. /\ buffer \o <<n>> \in Seq(Msg) /\ Rising(buffer \o <<n>>) /\ UpTo(buffer \o <<n>>, n)
        /\ Range(buffer \o <<n>>) = Range(buffer) \cup {n}
    BY <2>2, <2>3, <2>5, Joined DEF Queued
  <2>7. Append(buffer, n) = buffer \o <<n>>
    BY <2>2, <2>3, AppendIsConcat
  <2>8. Before(delivered, Append(buffer, n))
    <3>1. /\ DOMAIN buffer = 1..Len(buffer) /\ Len(buffer) \in Nat
          /\ DOMAIN Append(buffer, n) = 1..(Len(buffer) + 1)
          /\ \A i \in 1..Len(buffer) : Append(buffer, n)[i] = buffer[i]
          /\ Append(buffer, n)[Len(buffer) + 1] = n
      BY <2>2, <2>3, AppendProperties, LenProperties
    <3>2. \A i \in DOMAIN delivered : delivered[i] < n
      BY <2>5 DEF Before
    <3> QED  BY <3>1, <3>2 DEF Queued, Before
  <2>9. Len(Append(buffer, n)) = Len(buffer) + 1 /\ Len(buffer) \in Nat /\ Len(buffer) < BufferSize
    BY <2>1, <2>2, <2>3, AppendProperties, LenProperties DEF Busy
  <2>10. Queued'
    BY <2>1, <2>2, <2>5, <2>6, <2>7, <2>8 DEF Queued
  <2>11. HeldOrDelivered'
    BY <2>1, <2>6, <2>7 DEF HeldOrDelivered
  <2>12. Busy'
    BY <2>1 DEF Busy
  <2>13. TypeOK'
    <3>1. buffer' \in Seq(Msg)
      BY <2>1, <2>3, <2>6, <2>7
    <3>2. Len(buffer') <= BufferSize
      BY <2>1, <2>9 DEF TypeOK, WritersAssumption
    <3>3. accepted' \subseteq 1..n'
      BY <2>1, <2>2 DEF TypeOK
    <3> QED  BY <2>1, <3>1, <3>2, <3>3 DEF TypeOK, Msg
  <2> QED  BY <2>1, <2>10, <2>11, <2>12, <2>13
<1>7. CASE Chunk
  <2>1. /\ phase = "chunk" /\ bufferMutex = "writer" /\ n # 0 /\ buffer = << >>
        /\ bufferMutex' = "nobody" /\ phase' = "none"
        /\ UNCHANGED <<buffer, bufErr, big, n>>
    BY <1>7 DEF Chunk, Release, Busy
  <2>2. n \in Msg /\ n \in Nat /\ Passed = n - 1 /\ Passed' = n
    BY <2>1 DEF Msg, Passed, WritersAssumption
  <2>3. /\ <<n>> \in Seq(Msg) /\ Rising(<<n>>) /\ UpTo(<<n>>, n)
        /\ UpTo(delivered, n) /\ Before(delivered, <<n>>) /\ Range(<<n>>) = {n}
    BY <2>2, Single DEF Queued
  <2>4. CASE InnerWrite(<<n>>) /\ accepted' = accepted \cup {n}
    <3>1. /\ delivered' = delivered \o <<n>>
          /\ innerWriter' \in {"nil", "open", "closed", "nilFile"}
      BY <2>4, InnerWriteDelivers DEF TypeOK
    <3>2. /\ delivered' \in Seq(Msg) /\ Rising(delivered') /\ UpTo(delivered', n)
          /\ Range(delivered') = Range(delivered) \cup {n}
      BY <2>2, <2>3, <3>1, Joined DEF Queued
    <3>3. Queued'
      BY <2>1, <2>2, <3>2 DEF Queued, Rising, UpTo, Before
    <3>4. HeldOrDelivered'
      BY <2>1, <2>4, <3>2 DEF HeldOrDelivered
    <3>5. TypeOK'
      BY <2>1, <2>2, <2>4, <3>1 DEF TypeOK, Msg, WritersAssumption
    <3> QED  BY <2>1, <3>2, <3>3, <3>4, <3>5 DEF Busy
  <2>5. CASE InnerFails /\ UNCHANGED accepted
    <3>1. delivered' = delivered /\ innerWriter' \in {"nil", "open", "closed", "nilFile"}
      BY <2>5, InnerFailsDelivers DEF TypeOK
    <3>2. Queued'
      BY <2>1, <2>2, <2>3, <3>1 DEF Queued, Rising, UpTo, Before
    <3> QED  BY <2>1, <2>5, <3>1, <3>2 DEF TypeOK, Busy, HeldOrDelivered
  <2> QED  BY <1>7, <2>4, <2>5 DEF Chunk
<1>8. CASE Close
  <2>1. UNCHANGED <<delivered, buffer, bufErr, bufferMutex, phase, big, n, accepted>>
    BY <1>8 DEF Close
  <2>2. innerWriter' \in {"nil", "open", "closed", "nilFile"}
    BY <1>8 DEF Close, TypeOK
  <2> QED  BY <2>1, <2>2
           DEF TypeOK, Busy, Queued, HeldOrDelivered, Rising, UpTo, Before, Passed
<1> QED  BY <1>1, <1>2, <1>3, <1>4, <1>5, <1>6, <1>7, <1>8 DEF Next, Work
-----------------------------------------------------------------------------
\* What was accepted arrives in the order of the log, and until a flush fails nothing of it
\* is lost, however the writers, the flushers and the failures interleave.
THEOREM MessagesKept ==
    WritersAssumption => (Spec => [](InOrder /\ HeldOrDelivered /\ TypeOK))
<1> SUFFICES ASSUME WritersAssumption
             PROVE  Spec => [](InOrder /\ HeldOrDelivered /\ TypeOK)
  OBVIOUS
<1>1. Init => Inv
  BY WritersInit
<1>2. Inv /\ [Next]_vars => Inv'
  BY WritersStep
<1>3. Inv => InOrder /\ HeldOrDelivered /\ TypeOK
  <2>1. Rising(delivered) => InOrder
    BY DEF Rising, InOrder
  <2> QED  BY <2>1 DEF Inv, Queued
<1> QED  BY <1>1, <1>2, <1>3, PTL DEF Spec
-----------------------------------------------------------------------------
\* A connection the user closed, whose next write fails without a failure of the network.
Pending == innerWriter = "closed" /\ ~recconect /\ ~ReconnectOnMsg

\* Each message refused has been paid for by a failure, or by the one Close.
Costs ==
    /\ recconect \in BOOLEAN /\ closedOnce \in BOOLEAN /\ faults \in Nat
    /\ Pending => closedOnce
    /\ Cardinality(Refused) <= faults + (IF closedOnce /\ ~Pending THEN 1 ELSE 0)

\* What is refused is some of the messages given, but for the one at hand.
LEMMA RefusedFinite ==
    ASSUME WritersAssumption, Inv
    PROVE  IsFiniteSet(Refused) /\ Cardinality(Refused) \in Nat
<1>1. IsFiniteSet(1..n)
  BY FS_Interval DEF Inv
<1>2. Refused \subseteq 1..n
  BY DEF Refused
<1> QED  BY <1>1, <1>2, FS_Subset, FS_CardinalityType

\* A write on a connection that fails costs a failure, or is the first after Close.
LEMMA ConnFailsCosts ==
    ASSUME WritersAssumption, Costs, ConnFails
    PROVE  /\ recconect' \in BOOLEAN /\ faults' \in Nat /\ ~Pending'
           /\ faults' = faults + 1 \/ (faults' = faults /\ Pending)
<1>1. faults \in Nat
  BY DEF Costs
<1>2. CASE neddedConnectOnMsg
  <2>1. /\ faults' = faults + 1
        /\ (innerWriter' = "nil" /\ recconect' = FALSE) \/ (innerWriter' = "closed" /\ recconect' = TRUE)
    BY <1>2 DEF ConnFails, Fault
  <2>2. innerWriter' = "nil" => ~Pending'
    BY DEF Pending
  <2>3. recconect' = TRUE => ~Pending'
    BY Zenon DEF Pending
  <2>4. recconect' \in BOOLEAN
    BY <2>1, Zenon
  <2>5. ~Pending'
    BY <2>1, <2>2, <2>3, Zenon
  <2>6. faults' \in Nat
    BY <1>1, <2>1
  <2> QED  BY <2>1, <2>4, <2>5, <2>6
<1>3. CASE ~neddedConnectOnMsg
  <2>1. innerWriter' = "closed" /\ recconect' = TRUE /\ ~recconect /\ ~ReconnectOnMsg
    BY <1>3 DEF ConnFails, neddedConnectOnMsg
  <2>2. faults' = faults + 1 \/ (innerWriter = "closed" /\ faults' = faults)
    BY <1>3 DEF ConnFails, Fault
  <2> QED  BY <1>1, <2>1, <2>2 DEF Pending
<1> QED  BY <1>2, <1>3

\* The account through writes, failures and a close of a connection without a buffer.
LEMMA CostsStep ==
    ASSUME WritersAssumption, Inner = "conn", ~Buffered, Inv, Costs, [Next]_vars
    PROVE  Costs'
<1>0. /\ n \in Nat /\ faults \in Nat /\ accepted \subseteq 1..n
      /\ phase \in {"none", "chunk"} /\ (phase = "none" <=> bufferMutex = "nobody")
      /\ IsFiniteSet(Refused) /\ Cardinality(Refused) \in Nat
      /\ Cardinality(Refused) <= faults + 1 /\ ReconnectOnMsg \in BOOLEAN
  BY RefusedFinite DEF Inv, TypeOK, Busy, Costs, WritersAssumption
<1>1. ASSUME Refused' = Refused, faults' = faults, closedOnce' = closedOnce,
             Pending' = Pending, recconect' \in BOOLEAN
      PROVE  Costs'
  BY <1>1 DEF Costs
<1>2. CASE UNCHANGED vars
  BY <1>1, <1>2 DEF vars, innerVars, Refused, Pending, Costs
<1>3. ASSUME NEW isBig \in BOOLEAN, Write(isBig)
      PROVE  Costs'
  <2>1. /\ phase = "none" /\ phase' = "chunk" /\ n' = n + 1
        /\ UNCHANGED <<innerVars, accepted, closedOnce>>
    BY <1>0, <1>3 DEF Write
  <2>2. 1..(n + 1) = 1..n \cup {n + 1} /\ n + 1 \notin 1..n
    BY <1>0
  <2>3. Refused' = Refused
    BY <1>0, <2>1, <2>2 DEF Refused
  <2> QED  BY <1>1, <2>1, <2>3 DEF innerVars, Pending, Costs
<1>4. ASSUME NEW by \in {"user", "ticker"}, Flush(by)
      PROVE  Costs'
  BY <1>4 DEF Flush
<1>5. CASE FlushInner \/ FlushInnerFails \/ AppendToBuffer
  BY <1>0, <1>5 DEF FlushInner, FlushInnerFails, AppendToBuffer
<1>6. CASE Chunk
  <2>1. /\ phase = "chunk" /\ phase' = "none" /\ n' = n /\ closedOnce' = closedOnce
        /\ bufferMutex = "writer" /\ n \in 1..n
    BY <1>0, <1>6 DEF Chunk, Release, Inv, Busy
  <2>2. CASE ConnWrite(<<n>>) /\ accepted' = accepted \cup {n}
    <3>1. Refused' = Refused
      BY <2>1, <2>2 DEF Refused
    <3>2. faults' = faults /\ recconect' = FALSE /\ ~Pending'
      BY <2>2 DEF ConnWrite, Deliver, AfterWrite, Pending
    <3>3. Cardinality(Refused) <= faults + (IF closedOnce THEN 1 ELSE 0)
      BY <1>0 DEF Costs
    <3> QED  BY <1>0, <2>1, <3>1, <3>2, <3>3 DEF Costs
  <2>3. CASE ConnFails /\ accepted' = accepted
    <3>1. Refused' = Refused \cup {n} \/ Refused' = Refused
      BY <2>1, <2>3 DEF Refused
    <3>2. Cardinality(Refused') <= Cardinality(Refused) + 1 /\ Cardinality(Refused') \in Nat
      <4>1. Cardinality(Refused \cup {n}) \in {Cardinality(Refused), Cardinality(Refused) + 1}
        BY <1>0, FS_AddElement
      <4> QED  BY <1>0, <3>1, <4>1
    <3>3. /\ recconect' \in BOOLEAN /\ faults' \in Nat /\ ~Pending'
          /\ faults' = faults + 1 \/ (faults' = faults /\ Pending)
      BY <2>3, ConnFailsCosts
    <3>4. CASE faults' = faults + 1
      <4>1. Cardinality(Refused) <= faults + (IF closedOnce THEN 1 ELSE 0)
        BY <1>0 DEF Costs
      <4> QED  BY <1>0, <2>1, <3>2, <3>3, <3>4, <4>1 DEF Costs
    <3>5. CASE faults' = faults /\ Pending
      <4>1. closedOnce /\ Cardinality(Refused) <= faults
        BY <1>0, <3>5 DEF Costs
      <4> QED  BY <1>0, <2>1, <3>2, <3>3, <3>5, <4>1 DEF Costs
    <3> QED  BY <3>3, <3>4, <3>5
  <2>4. \/ ConnWrite(<<n>>) /\ accepted' = accepted \cup {n}
        \/ ConnFails /\ accepted' = accepted
    BY <1>6 DEF Chunk, InnerWrite, InnerFails
  <2> QED  BY <2>2, <2>3, <2>4
<1>7. CASE Close
  <2>1. /\ ~closedOnce /\ closedOnce' = TRUE
        /\ UNCHANGED <<recconect, faults, phase, n, accepted>>
    BY <1>7 DEF Close
  <2>2. Refused' = Refused
    BY <2>1 DEF Refused
  <2>3. Cardinality(Refused) <= faults
    BY <1>0, <2>1 DEF Costs
  <2> QED  BY <1>0, <2>1, <2>2, <2>3 DEF Costs
<1> QED  BY <1>2, <1>3, <1>4, <1>5, <1>6, <1>7 DEF Next, Work

\* A connection without a buffer, whether or not it is made anew for each message, refuses
\* no more messages than the network had failures, and one more if it was closed.
THEOREM ConnectionLossBounded ==
    WritersAssumption /\ Inner = "conn" /\ ~Buffered => (Spec => []LossBounded)
<1> SUFFICES ASSUME WritersAssumption, Inner = "conn", ~Buffered
             PROVE  Spec => []LossBounded
  OBVIOUS
<1>1. Init => Inv /\ Costs
  <2> SUFFICES ASSUME Init PROVE Inv /\ Costs
    OBVIOUS
  <2>1. Inv
    BY WritersInit
  <2>2. Cardinality(Refused) = 0
    <3>1. 1..0 = {}
      OBVIOUS
    <3>2. Refused = {}
      BY <3>1 DEF Init, Refused
    <3> QED  BY <3>2, FS_EmptySet
  <2>3. /\ innerWriter = "nil" /\ recconect = FALSE /\ closedOnce = FALSE /\ faults = 0
    BY DEF Init
  <2>4. ~Pending /\ ~closedOnce
    BY <2>3 DEF Pending
  <2>5. Cardinality(Refused) <= faults + (IF closedOnce /\ ~Pending THEN 1 ELSE 0)
    BY <2>2, <2>3, <2>4
  <2> QED  BY <2>1, <2>3, <2>4, <2>5 DEF Costs
<1>2. Inv /\ Costs /\ [Next]_vars => (Inv /\ Costs)'
  BY WritersStep, CostsStep
<1>3. Inv /\ Costs => LossBounded
  BY RefusedFinite DEF Costs, LossBounded
<1> QED  BY <1>1, <1>2, <1>3, PTL DEF Spec

\* Buffered or not, to a file or a connection: what was accepted arrives in order or is in
\* the buffer, and an unbuffered connection loses no more than the messages that show that
\* it broke.
THEOREM WritersAccount == WritersAssumption => (Spec => []Accounted)
<1> SUFFICES ASSUME WritersAssumption PROVE Spec => []Accounted
  OBVIOUS
<1>1. Spec => [](InOrder /\ HeldOrDelivered)
  BY MessagesKept, PTL
<1>2. CASE Inner = "conn" /\ ~Buffered
  <2>1. Spec => []LossBounded
    BY <1>2, ConnectionLossBounded
  <2>2. InOrder /\ HeldOrDelivered /\ LossBounded => Accounted
    BY DEF Accounted
  <2> QED  BY <1>1, <2>1, <2>2, PTL
<1>3. CASE ~(Inner = "conn" /\ ~Buffered)
  <2>1. InOrder /\ HeldOrDelivered => Accounted
    BY <1>3 DEF Accounted
  <2> QED  BY <1>1, <2>1, PTL
<1> QED  BY <1>2, <1>3

\* The states of the writer, its buffer with the bound on it, and the goroutine that has
\* the lock.
THEOREM WritersTypeOK == WritersAssumption => (Spec => []TypeOK)
<1> SUFFICES ASSUME WritersAssumption PROVE Spec => []TypeOK
  OBVIOUS
<1> QED  BY MessagesKept, PTL
=============================================================================
